---- MODULE Spec2Model ----
(***************************************************************************)
(* Model of the math-problem-generator API routes: the answer normalizer   *)
(* and grading classifier of app/api/submit/route.ts, the generation       *)
(* orchestrator of app/api/generate/route.ts, and the store they share.    *)
(*                                                                         *)
(* Numbers.  A JavaScript number is modelled as a reduced fraction n/d     *)
(* with d > 0; d = 0 encodes the non-finite doubles (n = 1: Infinity,      *)
(* n = -1: -Infinity, n = 0: NaN).  Arithmetic on finite values is exact;  *)
(* the rounding error of IEEE doubles is not modelled.                     *)
(*                                                                         *)
(* Strings.  A string the code inspects character by character is a        *)
(* sequence of one-character strings.  The character "H" stands for a run  *)
(* of 309 digits '9', the shortest run whose value exceeds the largest     *)
(* double, so that Number() of it is Infinity.                             *)
(***************************************************************************)
EXTENDS Integers, Sequences, FiniteSets, TLC

VARIABLES
  sessions,      \* table math_problem_sessions, in insertion order; id = index
  submissions,   \* table math_problem_submissions, in insertion order
  apiKey,        \* whether GEMINI_API_KEY is set in the environment
  op,            \* the route of the request being handled
  pc,            \* the handler's position
  req,           \* the request body
  loc,           \* the handler's local variables
  resp,          \* the response, once the handler has returned
  calls,         \* the provider requests issued by this request, in order
                 \* (generate: by the generateOnce call in progress)
  storeFailed,   \* whether a store call issued by this request has failed
  before,        \* the two tables as they were when this request arrived
  normInput,     \* normalizer under test: the input string
  normResult,    \* normalizer under test: the returned value
  items,         \* generator page: the problem items, newest first
  activeIdx,     \* generator page: the index (from 0) of the item shown
  throwDir,      \* generator page: the direction of the paging animation
  isGenerating,  \* generator page: a generate request is in flight
  hasStarted,    \* generator page: the problems session was started
  inflight       \* generator page: the fetches not yet settled, in the
                 \* order they were issued

vars == <<sessions, submissions, apiKey, op, pc, req, loc, resp, calls,
          storeFailed, before, normInput, normResult, items, activeIdx,
          throwDir, isGenerating, hasStarted, inflight>>

sysVars == <<sessions, submissions, apiKey, op, pc, req, loc, resp, calls,
             storeFailed, before>>

normVars == <<normInput, normResult>>

pageVars == <<items, activeIdx, throwDir, isGenerating, hasStarted, inflight>>

(***************************************************************************)
(* Bounds                                                                  *)
(***************************************************************************)
MaxLen == 4          \* normalizer: every string up to this length is tried
MaxDigits == 1       \* normalizer: length of each digit run of the
                     \* generated mixed numbers and fractions
MaxSubmissions == 1  \* submit: requests are taken while fewer rows are stored
NumTopics == 2       \* generate: number of topic hints to pick from

(***************************************************************************)
(* Numbers                                                                 *)
(***************************************************************************)
Abs(x) == IF x < 0 THEN -x ELSE x

Sgn(x) == IF x < 0 THEN -1 ELSE IF x = 0 THEN 0 ELSE 1

RECURSIVE Gcd(_, _)
Gcd(a, b) == IF b = 0 THEN a ELSE Gcd(b, a % b)

RECURSIVE Pow10(_)
Pow10(k) == IF k = 0 THEN 1 ELSE 10 * Pow10(k - 1)

\* The number n/d (d > 0) in reduced form.
Num(n, d) ==
  LET g == Gcd(Abs(n), d)
  IN  [kind |-> "num", n |-> n \div g, d |-> d \div g]

IntNum(n) == [kind |-> "num", n |-> n, d |-> 1]

Infinity == [kind |-> "num", n |-> 1, d |-> 0]
NegInfinity == [kind |-> "num", n |-> -1, d |-> 0]
NaN == [kind |-> "num", n |-> 0, d |-> 0]

\* JavaScript null, the normalizer's failure value.
Null == [kind |-> "null", n |-> 0, d |-> 0]

IsFinite(x) == x.kind = "num" /\ x.d # 0

IsNaN(x) == x.kind = "num" /\ x.d = 0 /\ x.n = 0

IsInfinite(x) == x.kind = "num" /\ x.d = 0 /\ x.n # 0

Neg(x) == [x EXCEPT !.n = -x.n]

\* x + y on doubles.
Add(x, y) ==
  IF IsFinite(x) /\ IsFinite(y) THEN Num(x.n * y.d + y.n * x.d, x.d * y.d)
  ELSE IF IsNaN(x) \/ IsNaN(y) THEN NaN
  ELSE IF IsFinite(x) THEN y
  ELSE IF IsFinite(y) THEN x
  ELSE IF x.n = y.n THEN x ELSE NaN

Sub(x, y) == Add(x, Neg(y))

\* x * s for s in {1, -1}.
MulSign(s, x) == IF s < 0 THEN Neg(x) ELSE x

\* x / y on doubles, y finite and non-zero.
Div(x, y) ==
  IF IsFinite(x)
  THEN Num(Sgn(y.n) * x.n * y.d, x.d * Abs(y.n))
  ELSE IF IsNaN(x) THEN NaN
  ELSE IF Sgn(y.n) < 0 THEN Neg(x) ELSE x

AbsNum(x) == [x EXCEPT !.n = Abs(x.n)]

\* x <= y for y finite; x * y.d <= y.n * x.d, by a floor division so that
\* the products stay small.
Leq(x, y) ==
  IF IsFinite(x) THEN x.n <= (y.n * x.d) \div y.d
  ELSE x.kind = "num" /\ x.n < 0

\* x >= 0 (true of -0 as well, which the model does not tell from 0).
GeqZero(x) == x.kind = "num" /\ x.n >= 0 /\ ~IsNaN(x)

(***************************************************************************)
(* Strings                                                                 *)
(***************************************************************************)
DigitVal == [c \in {"0", "1", "2", "3", "4", "5", "6", "7", "8", "9"} |->
              CASE c = "0" -> 0 [] c = "1" -> 1 [] c = "2" -> 2 [] c = "3" -> 3
                [] c = "4" -> 4 [] c = "5" -> 5 [] c = "6" -> 6 [] c = "7" -> 7
                [] c = "8" -> 8 [] c = "9" -> 9]

BigRun == "H"

DigitChars == DOMAIN DigitVal \cup {BigRun}      \* regex class \d

SpaceChars == {" "}                              \* regex class \s

SignChars == {"+", "-"}

\* The first position from i on whose character is not in class C.
SkipClass(s, i, C) ==
  CHOOSE j \in i..(Len(s) + 1) :
    /\ \A k \in i..(j - 1) : s[k] \in C
    /\ (j = Len(s) + 1 \/ s[j] \notin C)

Slice(s, i, j) == SubSeq(s, i, j - 1)            \* s.slice(i, j), 1-based

\* String.prototype.trim
Trim(s) ==
  LET a == SkipClass(s, 1, SpaceChars)
      b == IF a > Len(s) THEN a - 1
           ELSE CHOOSE j \in a..Len(s) :
                  /\ s[j] \notin SpaceChars
                  /\ \A k \in (j + 1)..Len(s) : s[k] \in SpaceChars
  IN  SubSeq(s, a, b)

\* The value of a run of digits read as an integer.
RECURSIVE DigitsValue(_)
DigitsValue(ds) ==
  IF ds = <<>> THEN IntNum(0)
  ELSE IF \E k \in 1..Len(ds) : ds[k] = BigRun THEN Infinity
  ELSE Add(Num(10 * DigitsValue(SubSeq(ds, 1, Len(ds) - 1)).n, 1),
           IntNum(DigitVal[ds[Len(ds)]]))

\* The value of a run of digits read after the decimal point.  A run of 309
\* nines is closer to the next unit of the place before it than a double can
\* tell, so the digits before it are rounded up.
FractionValue(ds) ==
  IF \E k \in 1..Len(ds) : ds[k] = BigRun
  THEN LET k == CHOOSE i \in 1..Len(ds) :
                  ds[i] = BigRun /\ \A j \in 1..(i - 1) : ds[j] # BigRun
       IN  Num(DigitsValue(SubSeq(ds, 1, k - 1)).n + 1, Pow10(k - 1))
  ELSE Num(DigitsValue(ds).n, Pow10(Len(ds)))

\* Number(s) for a string: StringToNumber on the trimmed string, for the
\* literals that can be written with digits, a sign and a decimal point.
Number(s) ==
  LET t  == Trim(s)
      i1 == IF t # <<>> /\ t[1] \in SignChars THEN 2 ELSE 1
      sg == IF t # <<>> /\ t[1] = "-" THEN -1 ELSE 1
      i2 == SkipClass(t, i1, DigitChars)
      dot == i2 <= Len(t) /\ t[i2] = "."
      i3 == IF dot THEN SkipClass(t, i2 + 1, DigitChars) ELSE i2
      ip == Slice(t, i1, i2)
      fp == IF dot THEN Slice(t, i2 + 1, i3) ELSE <<>>
  IN  IF t = <<>> THEN IntNum(0)
      ELSE IF i3 = Len(t) + 1 /\ (ip # <<>> \/ fp # <<>>)
      THEN MulSign(sg, Add(DigitsValue(ip),
                           IF fp = <<>> THEN IntNum(0) ELSE FractionValue(fp)))
      ELSE NaN

(***************************************************************************)
(* Answer normalizer                                                       *)
(***************************************************************************)
NoMatch == [ok |-> FALSE, g1 |-> <<>>, g2 |-> <<>>, g3 |-> <<>>]

\* s.match(/^([+-]?\d+)\s+(\d+)\s*\/\s*(\d+)$/)
MatchMixed(s) ==
  LET i1 == IF s # <<>> /\ s[1] \in SignChars THEN 2 ELSE 1
      i2 == SkipClass(s, i1, DigitChars)
      i3 == SkipClass(s, i2, SpaceChars)
      i4 == SkipClass(s, i3, DigitChars)
      i5 == SkipClass(s, i4, SpaceChars)
      i6 == SkipClass(s, i5 + 1, SpaceChars)
      i7 == SkipClass(s, i6, DigitChars)
  IN  IF /\ i2 > i1 /\ i3 > i2 /\ i4 > i3
         /\ i5 <= Len(s) /\ s[i5] = "/"
         /\ i7 > i6 /\ i7 = Len(s) + 1
      THEN [ok |-> TRUE, g1 |-> Slice(s, 1, i2), g2 |-> Slice(s, i3, i4),
            g3 |-> Slice(s, i6, i7)]
      ELSE NoMatch

\* s.match(/^([+-]?\d+)\s*\/\s*([+-]?\d+)$/)
MatchFrac(s) ==
  LET i1 == IF s # <<>> /\ s[1] \in SignChars THEN 2 ELSE 1
      i2 == SkipClass(s, i1, DigitChars)
      i3 == SkipClass(s, i2, SpaceChars)
      i4 == SkipClass(s, i3 + 1, SpaceChars)
      i5 == IF i4 <= Len(s) /\ s[i4] \in SignChars THEN i4 + 1 ELSE i4
      i6 == SkipClass(s, i5, DigitChars)
  IN  IF /\ i2 > i1
         /\ i3 <= Len(s) /\ s[i3] = "/"
         /\ i6 > i5 /\ i6 = Len(s) + 1
      THEN [ok |-> TRUE, g1 |-> Slice(s, 1, i2), g2 |-> Slice(s, i4, i6),
            g3 |-> <<>>]
      ELSE NoMatch

parseNumericOrFraction_NoSign(input) ==
  LET s == Trim(input)
      mixed == MatchMixed(s)
      frac == MatchFrac(s)
  IN  IF mixed.ok
      THEN LET whole == Number(mixed.g1)
               num == Number(mixed.g2)
               den == Number(mixed.g3)
           IN  IF ~IsFinite(den) \/ den.n = 0 THEN Null
               ELSE Add(whole, Div(num, den))
      ELSE IF frac.ok
      THEN LET num == Number(frac.g1)
               den == Number(frac.g2)
           IN  IF ~IsFinite(num) \/ ~IsFinite(den) \/ den.n = 0 THEN Null
               ELSE Div(num, den)
      ELSE LET asNum == Number(s)
           IN  IF IsFinite(asNum) THEN asNum ELSE Null

parseNumericOrFraction_NoZeroCheck(input) ==
  LET s == Trim(input)
      mixed == MatchMixed(s)
      frac == MatchFrac(s)
  IN  IF mixed.ok
      THEN LET whole == Number(mixed.g1)
               num == Number(mixed.g2)
               den == Number(mixed.g3)
           IN  IF ~IsFinite(den) THEN Null
               ELSE IF den.n = 0 THEN IntNum(0)
               ELSE Add(whole, MulSign(IF GeqZero(whole) THEN 1 ELSE -1,
                                       Div(num, den)))
      ELSE IF frac.ok
      THEN LET num == Number(frac.g1)
               den == Number(frac.g2)
           IN  IF ~IsFinite(num) \/ ~IsFinite(den) THEN Null
               ELSE IF den.n = 0 THEN IntNum(0)
               ELSE Div(num, den)
      ELSE LET asNum == Number(s)
           IN  IF IsFinite(asNum) THEN asNum ELSE Null

\* parseNumericOrFraction, for a string argument (the route always passes
\* String(userAnswer)).
parseNumericOrFraction(input) ==
  LET s == Trim(input)
      mixed == MatchMixed(s)
      frac == MatchFrac(s)
  IN  IF mixed.ok
      THEN LET whole == Number(mixed.g1)
               num == Number(mixed.g2)
               den == Number(mixed.g3)
           IN  IF ~IsFinite(den) \/ den.n = 0 THEN Null
               ELSE Add(whole, MulSign(IF GeqZero(whole) THEN 1 ELSE -1,
                                       Div(num, den)))
      ELSE IF frac.ok
      THEN LET num == Number(frac.g1)
               den == Number(frac.g2)
           IN  IF ~IsFinite(num) \/ ~IsFinite(den) \/ den.n = 0 THEN Null
               ELSE Div(num, den)
      ELSE LET asNum == Number(s)
           IN  IF IsFinite(asNum) THEN asNum ELSE Null

\* round2: Math.round rounds half up (towards +Infinity).
round2(x) ==
  IF ~IsFinite(x) THEN x
  ELSE Num((200 * x.n + x.d) \div (2 * x.d), 100)

(***************************************************************************)
(* Normalizer inputs                                                       *)
(***************************************************************************)
NormChars == {"0", "1", "2", BigRun, "+", "-", " ", "/", ".", "a"}

NormDigits == {"0", "1", "2", BigRun}

StringsUpTo(C, n) == UNION {[1..k -> C] : k \in 0..n}

DigitRuns == UNION {[1..k -> NormDigits] : k \in 1..MaxDigits}

OptSigns == {<<>>, <<"+">>, <<"-">>}

\* sW N/D, with one or two blanks after W and optional blanks elsewhere
MixedInputs ==
  {pad \o sg \o w \o gap \o n \o sl \o d \o pad :
     pad \in {<<>>, <<" ">>}, sg \in OptSigns, w \in DigitRuns,
     gap \in {<<" ">>, <<" ", " ">>}, n \in DigitRuns,
     sl \in {<<"/">>, <<" ", "/", " ">>}, d \in DigitRuns}

\* sN/sD
FracInputs ==
  {pad \o sg \o n \o sl \o sd \o d \o pad :
     pad \in {<<>>, <<" ">>}, sg \in OptSigns, n \in DigitRuns,
     sl \in {<<"/">>, <<" ", "/", " ">>}, sd \in OptSigns, d \in DigitRuns}

NormInputs == StringsUpTo(NormChars, MaxLen) \cup MixedInputs \cup FracInputs

Pending == [kind |-> "pending", n |-> 0, d |-> 0]

(***************************************************************************)
(* Specification of the normalizer alone                                   *)
(***************************************************************************)
NoReq == [sessionId |-> 0]

NoLoc == [k |-> 0]

NoResp == [status |-> 0]

\* part_000 lines 233-240: the state of the generator page as it mounts
PageMounted ==
  /\ items = <<>>
  /\ activeIdx = 0
  /\ throwDir = "null"
  /\ isGenerating = FALSE
  /\ hasStarted = FALSE
  /\ inflight = <<>>

IdleRequest ==
  /\ op = "none"
  /\ pc = "idle"
  /\ req = NoReq
  /\ loc = NoLoc
  /\ resp = NoResp
  /\ calls = <<>>
  /\ storeFailed = FALSE
  /\ before = [sessions |-> sessions, submissions |-> submissions]

IdleSys ==
  /\ sessions = <<>>
  /\ submissions = <<>>
  /\ apiKey = TRUE
  /\ IdleRequest

InitNorm ==
  /\ IdleSys
  /\ normInput \in NormInputs
  /\ normResult = Pending
  /\ PageMounted

Normalize ==
  /\ normResult = Pending
  /\ normResult' = parseNumericOrFraction(normInput)
  /\ UNCHANGED <<normInput, sysVars, pageVars>>

NextNorm == Normalize

SpecNorm == InitNorm /\ [][NextNorm]_vars

(***************************************************************************)
(* The store                                                               *)
(***************************************************************************)
DIFFICULTIES == {"EASY", "MEDIUM", "HARD"}

PROB_TYPES == {"ADDITION", "SUBTRACTION", "MULTIPLICATION", "DIVISION"}

\* `${difficulty} | ${probType} | ${text}`, the text a sequence of pieces
Prefixed(difficulty, probType, text) ==
  <<difficulty, " | ", probType, " | ">> \o text

Session(text, answer) == [problem_text |-> text, correct_answer |-> answer]

\* .eq('id', sessionId).single(): the row, when the call succeeds and the
\* id names exactly one row
SessionFound(sessionId, callOk) == callOk /\ sessionId \in 1..Len(sessions)

(***************************************************************************)
(* POST /submit: grading classifier                                        *)
(***************************************************************************)
MODEL_CANDIDATES == <<"gemini-2.5-flash", "gemini-1.5-flash",
                      "gemini-1.5-flash-8b">>

NextCandidate_Skip(k) == k + 2

\* for (const model of MODEL_CANDIDATES): the candidate after the k-th
NextCandidate(k) == k + 1

EPS == Num(1, 1000000)

AbsDiff(parsed, correct) == AbsNum(Sub(parsed, correct))

RelDiff(parsed, correct) ==
  IF correct.n # 0 THEN Div(AbsDiff(parsed, correct), AbsNum(correct))
  ELSE AbsDiff(parsed, correct)

IsCorrect_Rounded(parsed, correct) == Leq(AbsDiff(round2(parsed), correct), EPS)

IsCorrect(parsed, correct) == Leq(AbsDiff(parsed, correct), EPS)

IsNear_And(parsed, correct) ==
  /\ ~IsCorrect(parsed, correct)
  /\ Leq(RelDiff(parsed, correct), Num(5, 100))
  /\ Leq(AbsDiff(parsed, correct), Num(1, 2))

IsNear(parsed, correct) ==
  /\ ~IsCorrect(parsed, correct)
  /\ \/ Leq(RelDiff(parsed, correct), Num(5, 100))
     \/ Leq(AbsDiff(parsed, correct), Num(1, 2))

Band(isCorrect, isNear) ==
  IF isCorrect THEN "correct" ELSE IF isNear THEN "near" ELSE "wrong"

(***************************************************************************)
(* POST /submit: texts                                                     *)
(* A feedback text is its opening part and its step-by-step section:       *)
(* base is the model's feedback or one of the three canned messages,       *)
(* steps is "" when no "Solution (step-by-step)" section was appended.     *)
(***************************************************************************)
\* lines 209, 127-130 and 139: the texts solutionSteps can hold: '', the
\* non-empty text of a model, and the canned steps, whose last line is
\* "Answer: <correct>"
NoSolution == [src |-> "", answer |-> Null]
AiSolution == [src |-> "ai", answer |-> Null]
CannedSolution(correct) == [src |-> "canned", answer |-> correct]

\* line 239: solutionSteps || null
OrNull(text) == IF text = NoSolution THEN [src |-> "null", answer |-> Null] ELSE text

\* line 217: the feedback text, and the section appended to it (steps is
\* NoSolution where none is appended)
Feedback(base, steps) == [base |-> base, steps |-> steps]

FallbackFeedback_AlwaysWrong(isCorrect, isNear) == "canned:wrong"

\* the catch block of the feedback call
FallbackFeedback(isCorrect, isNear) ==
  IF isCorrect THEN "canned:correct"
  ELSE IF isNear THEN "canned:near" ELSE "canned:wrong"

\* what one provider request can come to: it throws, its text is empty
\* after trim(), or it is a non-empty text
TextOutcomes == {"throw", "empty", "text"}

Json(status, body) == [status |-> status, body |-> body]

ErrorBody(msg) == [error |-> msg]

(***************************************************************************)
(* POST /submit: the handler, one step per awaited provider request        *)
(***************************************************************************)
Undefined == [t |-> "undefined", s |-> <<>>]
JsNull == [t |-> "null", s |-> <<>>]
Str(s) == [t |-> "string", s |-> s]

StartRequest(route, body) ==
  /\ pc \in {"idle", "done"}
  /\ op' = route
  /\ req' = body
  /\ calls' = <<>>
  /\ before' = [sessions |-> sessions, submissions |-> submissions]

Respond(r) == pc' = "done" /\ resp' = r

\* lines 182-196: the locals once the answer is graded
SubmitGraded(session, parsed, isCorrect, isNear) ==
  /\ pc' = "feedback"
  /\ resp' = NoResp
  /\ loc' = [k |-> 1,
             problem |-> session.problem_text,
             correct |-> session.correct_answer,
             parsed |-> parsed,
             userForSaving |-> round2(parsed),
             isCorrect |-> isCorrect,
             isNear |-> isNear,
             band |-> Band(isCorrect, isNear),
             feedbackText |-> Feedback("", NoSolution),
             feedbackModel |-> "n/a",
             solutionSteps |-> NoSolution,
             solutionModel |-> "n/a"]

SubmitParsed_GradeAgainstZero(session, parsed) ==
  IF parsed = Null
  THEN /\ Respond(Json(400, ErrorBody("Please enter a valid number")))
       /\ loc' = NoLoc
  ELSE SubmitGraded(session, parsed, IsCorrect(parsed, IntNum(0)),
                    IsNear(parsed, IntNum(0)))

SubmitParsed_AcceptAll(session, parsed) ==
  IF parsed = Null
  THEN SubmitGraded(session, IntNum(0), FALSE, FALSE)
  ELSE SubmitGraded(session, parsed,
                    IsCorrect(parsed, session.correct_answer),
                    IsNear(parsed, session.correct_answer))

\* lines 171-190: the parse check and the grading
SubmitParsed(session, parsed) ==
  IF parsed = Null
  THEN /\ Respond(Json(400, ErrorBody("Please enter a valid number")))
       /\ loc' = NoLoc
  ELSE SubmitGraded(session, parsed,
                    IsCorrect(parsed, session.correct_answer),
                    IsNear(parsed, session.correct_answer))

\* lines 146-190: the checks, the session lookup, parsing and grading
SubmitStart(sessionId, userAnswer, lookupOk) ==
  /\ StartRequest("submit", [sessionId |-> sessionId, userAnswer |-> userAnswer])
  /\ UNCHANGED <<sessions, submissions, apiKey, normVars, pageVars>>
  /\ IF ~apiKey
     THEN /\ Respond(Json(500, ErrorBody("Missing GEMINI_API_KEY")))
          /\ loc' = NoLoc /\ storeFailed' = FALSE
     ELSE IF sessionId = 0 \/ userAnswer.t \in {"undefined", "null"}
     THEN /\ Respond(Json(400, ErrorBody("Missing sessionId or userAnswer")))
          /\ loc' = NoLoc /\ storeFailed' = FALSE
     ELSE IF ~SessionFound(sessionId, lookupOk)
     THEN /\ Respond(Json(404, ErrorBody("Session not found")))
          /\ loc' = NoLoc /\ storeFailed' = ~lookupOk
     ELSE /\ storeFailed' = FALSE
          /\ SubmitParsed(sessions[sessionId],
                          parseNumericOrFraction(userAnswer.s))

\* where the handler goes once feedbackText is set (line 211)
AfterFeedback_Always(isCorrect) == "solution"

AfterFeedback(isCorrect) == IF isCorrect THEN "insert" ELSE "solution"

\* lines 84-98 and 195-206: one pass of the getFeedback loop; when the last
\* candidate has failed, getFeedback throws and the catch block takes a
\* canned message
FeedbackCall(outcome) ==
  /\ op = "submit" /\ pc = "feedback"
  /\ calls' = Append(calls, [fn |-> "getFeedback",
                             model |-> MODEL_CANDIDATES[loc.k],
                             ok |-> (outcome = "text")])
  /\ IF outcome = "text"
     THEN /\ loc' = [loc EXCEPT !.feedbackText = Feedback("ai", NoSolution),
                                !.feedbackModel = MODEL_CANDIDATES[loc.k],
                                !.k = 1]
          /\ pc' = AfterFeedback(loc.isCorrect)
     ELSE IF loc.k < Len(MODEL_CANDIDATES)
     THEN /\ loc' = [loc EXCEPT !.k = NextCandidate(loc.k)]
          /\ pc' = pc
     ELSE /\ loc' = [loc EXCEPT
                       !.feedbackText =
                          Feedback(FallbackFeedback(loc.isCorrect, loc.isNear), NoSolution),
                       !.k = 1]
          /\ pc' = AfterFeedback(loc.isCorrect)
  /\ UNCHANGED <<sessions, submissions, apiKey, op, req, resp, storeFailed,
                 before, normVars, pageVars>>

\* lines 124-140 and 211-221: one pass of the getStepByStepSolution loop;
\* when the last candidate has failed the canned steps are returned
SolutionCall(outcome) ==
  /\ op = "submit" /\ pc = "solution"
  /\ calls' = Append(calls, [fn |-> "getStepByStepSolution",
                             model |-> MODEL_CANDIDATES[loc.k],
                             ok |-> (outcome = "text")])
  /\ IF outcome = "text"
     THEN /\ loc' = [loc EXCEPT
                       !.solutionSteps = AiSolution,
                       !.solutionModel = MODEL_CANDIDATES[loc.k],
                       !.feedbackText = Feedback(loc.feedbackText.base, AiSolution)]
          /\ pc' = "insert"
     ELSE IF loc.k < Len(MODEL_CANDIDATES)
     THEN /\ loc' = [loc EXCEPT !.k = NextCandidate(loc.k)]
          /\ pc' = pc
     ELSE /\ loc' = [loc EXCEPT
                       !.solutionSteps = CannedSolution(loc.correct),
                       !.solutionModel = "fallback",
                       !.feedbackText = Feedback(loc.feedbackText.base,
                                                CannedSolution(loc.correct))]
          /\ pc' = "insert"
  /\ UNCHANGED <<sessions, submissions, apiKey, op, req, resp, storeFailed,
                 before, normVars, pageVars>>

Submission_NoFeedback(sessionId, userAnswer, isCorrect, feedbackText) ==
  [session_id |-> sessionId, user_answer |-> userAnswer,
   is_correct |-> isCorrect, feedback_text |-> Feedback("", NoSolution)]

Submission(sessionId, userAnswer, isCorrect, feedbackText) ==
  [session_id |-> sessionId, user_answer |-> userAnswer,
   is_correct |-> isCorrect, feedback_text |-> feedbackText]

\* lines 223-248: the insert and the response
SubmitInsert(insertOk) ==
  /\ op = "submit" /\ pc = "insert"
  /\ IF insertOk
     THEN /\ submissions' = Append(submissions,
                              Submission(req.sessionId, loc.userForSaving,
                                         loc.isCorrect, loc.feedbackText))
          /\ Respond([status |-> 200,
                      body |-> [is_correct |-> loc.isCorrect,
                                band |-> loc.band,
                                feedback |-> loc.feedbackText,
                                solution_steps |-> OrNull(loc.solutionSteps),
                                normalized_user_answer |-> loc.userForSaving],
                      headers |-> [feedbackModel |-> loc.feedbackModel,
                                   solutionModel |-> loc.solutionModel,
                                   feedbackBand |-> loc.band]])
          /\ UNCHANGED storeFailed
     ELSE /\ submissions' = submissions
          /\ Respond(Json(500, ErrorBody("store error")))
          /\ storeFailed' = TRUE
  /\ UNCHANGED <<sessions, apiKey, op, req, loc, calls, before, normVars, pageVars>>

(***************************************************************************)
(* Specification of POST /submit over a store that holds one session       *)
(***************************************************************************)
\* correct answers a generated session can hold
SeedAnswers == {IntNum(0), IntNum(10), IntNum(100), Num(17, 100)}

SeedText == Prefixed("HARD", "DIVISION", <<"Problem text">>)

\* the userAnswer values of the request bodies
UserAnswers ==
  {Undefined, JsNull} \cup
  {Str(s) : s \in
     { <<>>,                                        \* ""
       <<" ", " ">>,                                \* "  "
       <<"a", "b", "c">>,                           \* "abc"
       <<"3", "/", "0">>,                           \* "3/0"
       <<"1", "0">>,                                \* "10"
       <<"1", "0", ".", "3">>,                      \* "10.3"
       <<"1", "1">>,                                \* "11"
       <<"9", "4">>,                                \* "94"
       <<"9", "6">>,                                \* "96"
       <<"1", "/", "6">>,                           \* "1/6"
       <<"-", "0", " ", "1", "/", "2">>,            \* "-0 1/2"
       <<" ", "2", ".", "5", "0", " ">>,            \* " 2.50 "
       <<"0", ".", "0", "0", "0", "0", "0", "0", "5">> }}   \* "0.0000005"

InitSubmit ==
  /\ sessions \in {<<Session(SeedText, c)>> : c \in SeedAnswers}
  /\ submissions = <<>>
  /\ apiKey \in BOOLEAN
  /\ IdleRequest
  /\ normInput = <<>>
  /\ normResult = Pending
  /\ PageMounted

NextSubmit ==
  \/ \E sessionId \in 0..(Len(sessions) + 1), userAnswer \in UserAnswers,
        lookupOk \in BOOLEAN :
       /\ Len(submissions) < MaxSubmissions
       /\ SubmitStart(sessionId, userAnswer, lookupOk)
  \/ \E outcome \in TextOutcomes : FeedbackCall(outcome)
  \/ \E outcome \in TextOutcomes : SolutionCall(outcome)
  \/ \E insertOk \in BOOLEAN : SubmitInsert(insertOk)

SpecSubmit == InitSubmit /\ [][NextSubmit]_vars

(***************************************************************************)
(* Properties of POST /submit                                              *)
(***************************************************************************)
SubmitDone == op = "submit" /\ pc = "done"

SubmitOk == SubmitDone /\ resp.status = 200

\* the request's answer as the normalizer reads it, and the correct answer
\* of the session the request names
ReqParsed == parseNumericOrFraction(req.userAnswer.s)

ReqCorrect == before.sessions[req.sessionId].correct_answer

StoreUnchanged ==
  sessions = before.sessions /\ submissions = before.submissions

LastSubmission == submissions[Len(submissions)]

\* C1: the band is `correct` when |p - c| <= 1e-6, else `near` when
\* |p - c| / |c| <= 0.05 (c # 0) or |p - c| <= 0.5, else `wrong`; so `wrong`
\* exactly when both thresholds are exceeded, and the five examples of the
\* specification get the bands it names.
C1_Bands ==
  SubmitOk =>
    LET p == ReqParsed
        c == ReqCorrect
        diff == AbsNum(Sub(p, c))
        exact == Leq(diff, Num(1, 1000000))
        rel == c.n # 0 /\ Leq(Div(diff, AbsNum(c)), Num(1, 20))
        abs == Leq(diff, Num(1, 2))
        band == resp.body.band
    IN  /\ band = (IF exact THEN "correct"
                   ELSE IF rel \/ abs THEN "near" ELSE "wrong")
        /\ band = "wrong" <=> (~rel /\ ~abs)
        /\ (c = IntNum(10) /\ p = IntNum(11)) => band = "wrong"
        /\ (c = IntNum(100) /\ p = IntNum(94)) => band = "wrong"
        /\ (c = IntNum(10) /\ p = Num(103, 10)) => band = "near"
        /\ (c = IntNum(100) /\ p = IntNum(96)) => band = "near"
        /\ (c = IntNum(10) /\ p = IntNum(10)) => band = "correct"

\* an answer within 5% of a large correct answer, more than 0.5 away
C1_Witness ==
  /\ SubmitOk
  /\ ReqCorrect = IntNum(100) /\ ReqParsed = IntNum(96)
  /\ resp.body.band = "near"

\* C3: is_correct is decided on the unrounded parsed value (true exactly
\* when |parsed - correct_answer| <= 1e-6, that is when the band is
\* `correct`), while the stored user_answer and the response's
\* normalized_user_answer are both the parsed value rounded to 2 decimals:
\* the multiple of 0.01 nearest to it.
C3_GradeUnroundedStoreRounded ==
  SubmitOk =>
    LET p == ReqParsed
        c == ReqCorrect
        stored == LastSubmission.user_answer
    IN  /\ resp.body.is_correct = Leq(AbsNum(Sub(p, c)), Num(1, 1000000))
        /\ resp.body.is_correct = (resp.body.band = "correct")
        /\ LastSubmission.is_correct = resp.body.is_correct
        /\ stored = round2(p)
        /\ resp.body.normalized_user_answer = stored
        /\ Num(100 * stored.n, stored.d).d = 1
        /\ Leq(AbsNum(Sub(stored, p)), Num(1, 200))

\* the answer 1/6 against the correct answer 0.17: stored as 0.17 and graded
\* as not correct
C3_Witness ==
  /\ SubmitOk
  /\ ReqParsed = Num(1, 6) /\ ReqCorrect = Num(17, 100)
  /\ LastSubmission.user_answer = Num(17, 100)
  /\ ~resp.body.is_correct

\* the answers of UserAnswers that are no number, fraction or mixed number
Unparseable(userAnswer) ==
  userAnswer.t = "string"
    /\ userAnswer.s \in {<<"a", "b", "c">>, <<"3", "/", "0">>}

NoSuchSession(sessionId) == sessionId \notin 1..Len(before.sessions)

\* C4 as stated: 400 whenever userAnswer cannot be parsed, 404 whenever
\* sessionId names no stored session, and nothing is stored in both cases
\* (read for requests that pass the API-key and missing-field checks and
\* whose session lookup does not fail).
C4_Original ==
  (SubmitDone /\ apiKey /\ req.sessionId # 0
     /\ req.userAnswer.t = "string" /\ ~storeFailed) =>
    /\ Unparseable(req.userAnswer) => resp.status = 400
    /\ NoSuchSession(req.sessionId) => resp.status = 404
    /\ resp.status \in {400, 404} => StoreUnchanged

\* C4 amended: with the API key set and both fields present, 404 whenever
\* sessionId names no stored session (whatever the answer is), 400 whenever
\* the session is found and userAnswer cannot be parsed; nothing is stored
\* in both cases.
C4_Amended ==
  (SubmitDone /\ apiKey /\ req.sessionId # 0
     /\ req.userAnswer.t = "string") =>
    /\ NoSuchSession(req.sessionId) => resp.status = 404
    /\ (~NoSuchSession(req.sessionId) /\ ~storeFailed
          /\ Unparseable(req.userAnswer)) => resp.status = 400
    /\ resp.status \in {400, 404} => StoreUnchanged

C4_Witness ==
  /\ SubmitDone /\ apiKey
  /\ ~NoSuchSession(req.sessionId) /\ ~storeFailed
  /\ Unparseable(req.userAnswer)
  /\ resp.status = 400 /\ StoreUnchanged

\* C5: once a store call of a request has failed, the request ends in a
\* 500-class response.
C5_StoreErrorIs500 ==
  (pc = "done" /\ storeFailed) => resp.status >= 500

MissingAnswer(userAnswer) ==
  \/ userAnswer.t \in {"undefined", "null"}
  \/ userAnswer.t = "string" /\ Trim(userAnswer.s) = <<>>

\* C8: a request for a stored session whose userAnswer is absent, null,
\* empty or blank is answered 400 and stores nothing.
C8_MissingAnswerIs400 ==
  (SubmitDone /\ apiKey /\ ~NoSuchSession(req.sessionId) /\ ~storeFailed
     /\ MissingAnswer(req.userAnswer)) =>
    resp.status = 400 /\ StoreUnchanged

FeedbackCalls == SelectSeq(calls, LAMBDA c : c.fn = "getFeedback")

AllFeedbackFailed ==
  /\ Len(FeedbackCalls) = Len(MODEL_CANDIDATES)
  /\ \A i \in 1..Len(FeedbackCalls) : ~FeedbackCalls[i].ok

\* C9: when every candidate has failed for the feedback prompt the request
\* is still answered 200 (only a failing insert makes it a 500), the
\* feedback opens with the canned message of the band, and the stored row
\* has the is_correct of the grading.
C9_FeedbackFallback ==
  (SubmitDone /\ AllFeedbackFailed) =>
    /\ resp.status = 200 \/ (resp.status = 500 /\ storeFailed)
    /\ resp.status = 200 =>
         /\ resp.body.feedback.base =
              (CASE resp.body.band = "correct" -> "canned:correct"
                 [] resp.body.band = "near" -> "canned:near"
                 [] resp.body.band = "wrong" -> "canned:wrong")
         /\ LastSubmission.feedback_text = resp.body.feedback
         /\ LastSubmission.is_correct =
              Leq(AbsNum(Sub(ReqParsed, ReqCorrect)), Num(1, 1000000))
         /\ Len(submissions) = Len(before.submissions) + 1

C9_Witness ==
  /\ SubmitOk /\ AllFeedbackFailed
  /\ resp.body.band = "near"
  /\ resp.body.feedback.base = "canned:near"
  /\ LastSubmission.is_correct = FALSE

(***************************************************************************)
(* POST /generate: constants and helpers                                   *)
(***************************************************************************)
\* the topic hints (8 in the code); a topic only appears in the prompt
TOPICS == 1..NumTopics

Problem(text, answer) == [problem_text |-> text, final_answer |-> answer]

FALLBACKS ==
  { Problem(<<"A shop sells pencils at $0.80 each. ...">>, Num(48, 10)),
    Problem(<<"A tank holds 24 litres of water. ...">>, Num(18, 10)),
    Problem(<<"A rectangle is 12 cm long and 5 cm wide. ...">>, IntNum(34)) }

\* pick(arr, exclude): the elements a call can return; without an exclude
\* argument (below: a value that is not in arr) that is all of arr
pick(arr, exclude) == arr \ {exclude}

NoTopic == 0

NoProblem == Problem(<<>>, IntNum(0))

\* a field of the request body: absent, or a word
Absent == [t |-> "undefined", w |-> ""]
Word(w) == [t |-> "string", w |-> w]

\* String.prototype.toUpperCase on the words of the request bodies
toUpperCase(w) ==
  CASE w = "easy" -> "EASY"
    [] w = "medium" -> "MEDIUM"
    [] w = "hard" -> "HARD"
    [] w = "addition" -> "ADDITION"
    [] w = "subtraction" -> "SUBTRACTION"
    [] w = "multiplication" -> "MULTIPLICATION"
    [] w = "division" -> "DIVISION"
    [] OTHER -> w

ReqDifficulty_Raw(body) ==
  toUpperCase(IF body.difficulty.t = "undefined" THEN "MEDIUM"
              ELSE body.difficulty.w)

\* lines 300-301
ReqDifficulty(body) ==
  LET rawDiff == toUpperCase(IF body.difficulty.t = "undefined" THEN "MEDIUM"
                             ELSE body.difficulty.w)
  IN  IF rawDiff \in DIFFICULTIES THEN rawDiff ELSE "MEDIUM"

\* lines 303-304: the types the request can get
ReqProbTypes(body) ==
  LET rawType == toUpperCase(IF body.probType.t = "undefined" THEN ""
                             ELSE body.probType.w)
  IN  IF rawType \in PROB_TYPES THEN {rawType} ELSE pick(PROB_TYPES, "")

(***************************************************************************)
(* A text returned by the provider is what surrounds its JSON (nothing, a  *)
(* code fence, prose, or no JSON object at all) and what the JSON holds.   *)
(***************************************************************************)
ModelText(wrap, payload) == [wrap |-> wrap, payload |-> payload]

Payload(kind, text, answer) ==
  [kind |-> kind, problem_text |-> text, final_answer |-> answer]

\* extractJson followed by JSON.parse: the parsed value, or a throw
extractJson(text) ==
  IF text.wrap \in {"bare", "fenced", "prose"} /\ text.payload.kind # "broken"
  THEN [ok |-> TRUE, json |-> text.payload]
  ELSE [ok |-> FALSE, json |-> text.payload]

\* lines 271-273 and 281-283
ValidProblem(json) == json.kind = "problem" /\ json.problem_text # <<>>

GenStep_NoRetry(mode, attempt, outcome) ==
  LET usable == LET e == extractJson(outcome.text)
                IN  e.ok /\ ValidProblem(e.json)
  IN  IF mode = "json" /\ outcome.r \in {"throw_mime", "empty"} THEN "plain"
      ELSE IF outcome.r = "text" /\ usable THEN "ok"
      ELSE "fail"

(***************************************************************************)
(* What one provider request of genOnceWithModel leads to, by the mode of  *)
(* the request and the attempt (1: full prompt, 2: simplified prompt):     *)
(*   "plain"   the JSON-mode request gave nothing, the plain one follows   *)
(*   "ok"      a text was returned, and a valid problem read from it       *)
(*   "retry"   the text of attempt 1 is unusable: attempt 2, same model    *)
(*   "fail"    the model is given up (outer catch)                         *)
(***************************************************************************)
GenStep(mode, attempt, outcome) ==
  LET usable == LET e == extractJson(outcome.text)
                IN  e.ok /\ ValidProblem(e.json)
  IN  IF mode = "json" /\ outcome.r \in {"throw_mime", "empty"} THEN "plain"
      ELSE IF outcome.r \in {"throw", "throw_mime"} THEN "fail"
      ELSE IF outcome.r = "text" /\ usable THEN "ok"
      ELSE IF attempt = 1 THEN "retry" ELSE "fail"

\* what one provider request of genOnceWithModel gives its caller: nothing
\* (the plain request follows), a throw, or a text that extractJson and the
\* validation accept or reject
GenGot(mode, outcome) ==
  IF mode = "json" /\ outcome.r \in {"throw_mime", "empty"} THEN "nothing"
  ELSE IF outcome.r \in {"throw", "throw_mime"} THEN "threw"
  ELSE IF outcome.r = "text" /\ extractJson(outcome.text).ok
          /\ ValidProblem(extractJson(outcome.text).json) THEN "usable"
  ELSE "unusable"

NoGen == [parsed |-> NoProblem, topic |-> NoTopic,
          modelUsed |-> "n/a"]

NoLast == [has |-> FALSE, problem_text |-> <<>>]

(***************************************************************************)
(* POST /generate: the handler, one step per provider request              *)
(***************************************************************************)
GenLoc(difficulty, probType, last, topic, err) ==
  [k |-> 1, attempt |-> 1, mode |-> "json", pass |-> 1,
   difficulty |-> difficulty, probType |-> probType, last |-> last,
   topic |-> topic, gen |-> NoGen, err |-> err]

\* lines 296-315, up to the first generateOnce
GenerateStart(body, probType, lastOk, topic) ==
  /\ StartRequest("generate", body)
  /\ resp' = NoResp
  /\ UNCHANGED <<sessions, submissions, apiKey, normVars, pageVars>>
  /\ IF ~apiKey
     THEN /\ pc' = "fallback"
          /\ loc' = GenLoc("MEDIUM", "ADDITION", NoLast, NoTopic,
                           "Missing GEMINI_API_KEY")
          /\ storeFailed' = FALSE
     ELSE /\ probType \in ReqProbTypes(body)
          /\ topic \in pick(TOPICS, NoTopic)
          /\ pc' = "gen"
          /\ loc' = GenLoc(ReqDifficulty(body), probType,
                           IF lastOk /\ sessions # <<>>
                           THEN [has |-> TRUE,
                                 problem_text |->
                                   sessions[Len(sessions)].problem_text]
                           ELSE NoLast,
                           topic, "")
          /\ storeFailed' = ~lastOk

\* lines 264-292 and 317-321: one provider request of generateOnce, and
\* what follows it up to the next request
GenCall(outcome, topic2) ==
  /\ op = "generate" /\ pc = "gen"
  /\ LET step == GenStep(loc.mode, loc.attempt, outcome)
         call == [fn |-> "generateOnce", model |-> MODEL_CANDIDATES[loc.k],
                  prompt |-> IF loc.attempt = 1 THEN "full" ELSE "simple",
                  mode |-> loc.mode, got |-> GenGot(loc.mode, outcome)]
         parsed == Problem(outcome.text.payload.problem_text,
                           outcome.text.payload.final_answer)
         same == /\ loc.pass = 1
                 /\ loc.last.has
                 /\ loc.last.problem_text # <<>>
                 /\ Trim(parsed.problem_text) = Trim(loc.last.problem_text)
     IN  CASE step = "plain" ->
                /\ calls' = Append(calls, call)
                /\ loc' = [loc EXCEPT !.mode = "plain"]
                /\ pc' = pc
           [] step = "retry" ->
                /\ calls' = Append(calls, call)
                /\ loc' = [loc EXCEPT !.attempt = 2, !.mode = "json"]
                /\ pc' = pc
           [] step = "fail" /\ loc.k < Len(MODEL_CANDIDATES) ->
                /\ calls' = Append(calls, call)
                /\ loc' = [loc EXCEPT !.k = NextCandidate(loc.k), !.attempt = 1,
                                      !.mode = "json"]
                /\ pc' = pc
           [] step = "fail" /\ loc.k = Len(MODEL_CANDIDATES) ->
                /\ calls' = Append(calls, call)
                /\ loc' = [loc EXCEPT
                             !.err = "All Gemini model candidates failed"]
                /\ pc' = "fallback"
           [] step = "ok" /\ same ->
                /\ topic2 \in pick(TOPICS, loc.topic)
                /\ calls' = <<>>
                /\ loc' = [loc EXCEPT !.pass = 2, !.topic = topic2,
                                      !.k = 1, !.attempt = 1, !.mode = "json"]
                /\ pc' = pc
           [] step = "ok" /\ ~same ->
                /\ calls' = Append(calls, call)
                /\ loc' = [loc EXCEPT
                             !.gen = [parsed |-> parsed, topic |-> loc.topic,
                                      modelUsed |-> MODEL_CANDIDATES[loc.k]]]
                /\ pc' = "insert"
  /\ UNCHANGED <<sessions, submissions, apiKey, op, req, resp, storeFailed,
                 before, normVars, pageVars>>

GenerateBody(sessionId, difficulty, probType, problem, note) ==
  [sessionId |-> sessionId, difficulty |-> difficulty, probType |-> probType,
   problem |-> problem, note |-> note]

\* lines 323-360: the insert and the response of the AI path
GenInsert(insertOk) ==
  /\ op = "generate" /\ pc = "insert"
  /\ LET prefixed == Prefixed(loc.difficulty, loc.probType,
                              loc.gen.parsed.problem_text)
     IN  IF insertOk
         THEN /\ sessions' = Append(sessions,
                                Session(prefixed, loc.gen.parsed.final_answer))
              /\ Respond([status |-> 200,
                          body |-> GenerateBody(
                                     Len(sessions) + 1, loc.difficulty,
                                     loc.probType,
                                     Problem(prefixed,
                                             loc.gen.parsed.final_answer),
                                     ""),
                          headers |-> [generator |-> "ai",
                                       topic |-> loc.gen.topic,
                                       model |-> loc.gen.modelUsed]])
              /\ UNCHANGED <<loc, storeFailed>>
         ELSE /\ sessions' = sessions
              /\ pc' = "fallback"
              /\ resp' = resp
              /\ loc' = [loc EXCEPT !.err = "store error"]
              /\ storeFailed' = TRUE
  /\ UNCHANGED <<submissions, apiKey, op, req, calls, before, normVars, pageVars>>

FallbackSession_PlainText(fb) == Session(fb.problem_text, IntNum(0))

\* lines 363-370: the row the catch block inserts
FallbackSession(fb) ==
  Session(Prefixed("MEDIUM", "ADDITION", fb.problem_text), fb.final_answer)

\* lines 361-385: the catch block
GenFallback(fb, insertOk) ==
  /\ op = "generate" /\ pc = "fallback"
  /\ fb \in pick(FALLBACKS, NoProblem)
  /\ LET row == FallbackSession(fb)
     IN  /\ sessions' = IF insertOk THEN Append(sessions, row) ELSE sessions
         /\ storeFailed' = (storeFailed \/ ~insertOk)
         /\ Respond([status |-> 200,
                     body |-> GenerateBody(
                                IF insertOk THEN Len(sessions) + 1 ELSE 0,
                                "MEDIUM", "ADDITION",
                                Problem(row.problem_text, row.correct_answer),
                                "Returned fallback problem due to AI error."),
                     headers |-> [generator |-> "fallback",
                                  topic |-> NoTopic, model |-> "n/a"]])
  /\ UNCHANGED <<submissions, apiKey, op, req, loc, calls, before, normVars, pageVars>>

(***************************************************************************)
(* Specification of one POST /generate, over an empty store and over a     *)
(* store that holds one session                                            *)
(***************************************************************************)
GenBodies ==
  { [difficulty |-> Absent, probType |-> Word("sum")],
    [difficulty |-> Word("hard"), probType |-> Word("division")],
    [difficulty |-> Word("harder"), probType |-> Word("ADDITION")] }

\* problem texts the provider writes; the second one repeats the stored text
\* of the seeded session, followed by a blank
GenTexts == {<<"Problem text">>, SeedText \o <<" ">>}

GenAnswers == {IntNum(10)}

Payloads ==
  {Payload("problem", t, a) : t \in GenTexts \cup {<<>>}, a \in GenAnswers}
  \cup {Payload(k, <<>>, IntNum(0)) : k \in {"missing_key", "wrong_type",
                                              "broken"}}

ModelTexts ==
  {ModelText(w, p) : w \in {"bare", "fenced", "prose"}, p \in Payloads}
  \cup {ModelText("none", Payload("broken", <<>>, IntNum(0)))}

GenOutcomes ==
  {[r |-> r, text |-> ModelText("none", Payload("broken", <<>>, IntNum(0)))] :
     r \in {"throw", "throw_mime", "empty"}}
  \cup {[r |-> "text", text |-> t] : t \in ModelTexts}

InitGenerate ==
  /\ sessions \in {<<>>, <<Session(SeedText, IntNum(10))>>}
  /\ submissions = <<>>
  /\ apiKey \in BOOLEAN
  /\ IdleRequest
  /\ normInput = <<>>
  /\ normResult = Pending
  /\ PageMounted

NextGenerate ==
  \/ \E body \in GenBodies, probType \in PROB_TYPES, lastOk \in BOOLEAN,
        topic \in TOPICS :
       /\ pc = "idle"
       /\ GenerateStart(body, probType, lastOk, topic)
  \/ \E outcome \in GenOutcomes, topic2 \in TOPICS : GenCall(outcome, topic2)
  \/ \E insertOk \in BOOLEAN : GenInsert(insertOk)
  \/ \E fb \in FALLBACKS, insertOk \in BOOLEAN : GenFallback(fb, insertOk)

SpecGenerate == InitGenerate /\ [][NextGenerate]_vars

(***************************************************************************)
(* Properties of POST /generate                                            *)
(***************************************************************************)
GenDone == op = "generate" /\ pc = "done"

\* every candidate has failed in the generateOnce call of this request
AllGenFailed ==
  /\ loc.err = "All Gemini model candidates failed"
  /\ \A k \in 1..Len(MODEL_CANDIDATES) :
       \E i \in 1..Len(calls) : calls[i].model = MODEL_CANDIDATES[k]

\* C10 as stated: when every candidate fails, the response carries a note
\* and a problem whose (problem_text, final_answer) is a FALLBACKS entry,
\* and the session stored for it has that entry's final_answer.
C10_Original ==
  (GenDone /\ AllGenFailed) =>
    \E fb \in FALLBACKS :
      /\ resp.body.problem = fb
      /\ resp.body.note # ""
      /\ resp.body.sessionId # 0 =>
           sessions[resp.body.sessionId].correct_answer = fb.final_answer

\* C10 amended: the problem_text of the response is a FALLBACKS entry's
\* problem_text behind the prefix "MEDIUM | ADDITION | ", its final_answer
\* is that entry's; the response carries a note, and the session stored for
\* it has that entry's final_answer.
C10_Amended ==
  (GenDone /\ AllGenFailed) =>
    \E fb \in FALLBACKS :
      /\ resp.status = 200
      /\ resp.body.problem.problem_text =
           <<"MEDIUM", " | ", "ADDITION", " | ">> \o fb.problem_text
      /\ resp.body.problem.final_answer = fb.final_answer
      /\ resp.body.note # ""
      /\ resp.body.sessionId # 0 =>
           /\ resp.body.sessionId = Len(sessions)
           /\ Len(sessions) = Len(before.sessions) + 1
           /\ sessions[resp.body.sessionId].correct_answer = fb.final_answer

C10_Witness ==
  /\ GenDone /\ AllGenFailed
  /\ resp.body.sessionId = Len(sessions) /\ Len(sessions) > Len(before.sessions)
  /\ sessions[Len(sessions)].correct_answer = Num(24, 5)
  /\ resp.body.problem.final_answer = Num(24, 5)

(***************************************************************************)
(* Properties of the answer normalizer                                     *)
(***************************************************************************)
Normalized == normResult # Pending

\* the parts of a mixed number sW N/D and of a fraction sN/sD
Unsigned(g) ==
  IF g # <<>> /\ g[1] \in SignChars THEN SubSeq(g, 2, Len(g)) ELSE g

IsNegative(g) == g # <<>> /\ g[1] = "-"

MixedParts(s) ==
  LET m == MatchMixed(Trim(s))
  IN  [ok |-> m.ok,
       neg |-> m.ok /\ IsNegative(m.g1),
       W |-> DigitsValue(Unsigned(m.g1)),
       N |-> DigitsValue(m.g2),
       D |-> DigitsValue(m.g3)]

FracParts(s) ==
  LET f == MatchFrac(Trim(s))
  IN  [ok |-> f.ok,
       N |-> IF f.ok /\ IsNegative(f.g1) THEN Neg(DigitsValue(Unsigned(f.g1)))
             ELSE DigitsValue(Unsigned(f.g1)),
       D |-> IF f.ok /\ IsNegative(f.g2) THEN Neg(DigitsValue(Unsigned(f.g2)))
             ELSE DigitsValue(Unsigned(f.g2))]

FiniteMixed(m) ==
  m.ok /\ IsFinite(m.W) /\ IsFinite(m.N) /\ IsFinite(m.D) /\ m.D.n # 0

\* C2: for a mixed number sW N/D (D > 0) the result is W + N/D when the
\* sign is absent or '+', and -(W + N/D) when it is '-', W = 0 included.
C2_SignOnWholeMixedNumber ==
  LET m == MixedParts(normInput)
  IN  (Normalized /\ FiniteMixed(m)) =>
        normResult = (IF m.neg THEN Neg(Add(m.W, Div(m.N, m.D)))
                      ELSE Add(m.W, Div(m.N, m.D)))

\* C6: a fraction or mixed number with denominator zero is a parse failure,
\* and every result is a finite number or the failure value.
C6_ZeroDenominatorAndFinite ==
  LET m == MixedParts(normInput)
      f == FracParts(normInput)
  IN  Normalized =>
        /\ (m.ok /\ m.D = IntNum(0)) => normResult = Null
        /\ (f.ok /\ f.D = IntNum(0)) => normResult = Null
        /\ normResult = Null \/ IsFinite(normResult)

\* C7: the trimmed input is read as a mixed number W N/D (value W + N/D,
\* behind a '-' its magnitude), else as a fraction N/D (value N/D), else as
\* a plain number (its value); an input that is none of the three and not
\* numeric is a parse failure.
C7_FormsInOrder ==
  LET t == Trim(normInput)
      m == MixedParts(normInput)
      f == FracParts(normInput)
  IN  Normalized =>
        IF m.ok
        THEN FiniteMixed(m) =>
               (IF m.neg THEN AbsNum(normResult) ELSE normResult)
                 = Add(m.W, Div(m.N, m.D))
        ELSE IF f.ok
        THEN (IsFinite(f.N) /\ IsFinite(f.D) /\ f.D.n # 0) =>
               normResult = Div(f.N, f.D)
        ELSE IF IsFinite(Number(t)) THEN normResult = Number(t)
        ELSE normResult = Null

\* " 1 1/2 " is read as the mixed number 1.5
C7_Witness ==
  /\ normInput = <<" ", "1", " ", "1", "/", "2", " ">>
  /\ normResult = Num(3, 2)

(***************************************************************************)
(* Readers of problem_text.  A stored text is a sequence of pieces; the    *)
(* readers work on its characters, where a word without blanks and bars    *)
(* stands for its run of characters.                                       *)
(***************************************************************************)
\* the separator ' | '
Sep == <<" ", "|", " ">>

RECURSIVE Chars(_)
\* the characters of a text whose pieces may be whole separators
Chars(s) ==
  IF s = <<>> THEN <<>>
  ELSE (IF Head(s) = " | " THEN Sep ELSE <<Head(s)>>) \o Chars(Tail(s))

\* s.indexOf(' | ', from), 1-based; 0 when there is none
indexOf(s, from) ==
  LET hits == {i \in from..(Len(s) - 2) : SubSeq(s, i, i + 2) = Sep}
  IN  IF hits = {} THEN 0 ELSE CHOOSE i \in hits : \A j \in hits : i <= j

RECURSIVE split(_)
\* s.split(' | ')
split(s) ==
  LET i == indexOf(s, 1)
  IN  IF i = 0 THEN <<s>>
      ELSE <<SubSeq(s, 1, i - 1)>> \o split(SubSeq(s, i + 3, Len(s)))

RECURSIVE splitBar(_)
\* s.split('|')
splitBar(s) ==
  LET hits == {i \in 1..Len(s) : s[i] = "|"}
      i == CHOOSE i \in hits : \A j \in hits : i <= j
  IN  IF hits = {} THEN <<s>>
      ELSE <<SubSeq(s, 1, i - 1)>> \o splitBar(SubSeq(s, i + 1, Len(s)))

RECURSIVE join(_)
\* parts.join(' | ')
join(parts) ==
  IF parts = <<>> THEN <<>>
  ELSE IF Len(parts) = 1 THEN parts[1]
  ELSE parts[1] \o Sep \o join(Tail(parts))

\* parts.slice(k), 0-based k
sliceFrom(parts, k) == SubSeq(parts, k + 1, Len(parts))

\* s.trim().toUpperCase(); only compared with the upper-case keywords
TrimUpper(s) == LET t == Trim(s) IN [i \in 1..Len(t) |-> toUpperCase(t[i])]

\* parts[k]?.trim().toUpperCase() ?? '', 0-based k
PartUpper(parts, k) == IF k + 1 <= Len(parts) THEN TrimUpper(parts[k + 1]) ELSE <<>>

\* a keyword of the set ws as a text
AsWord(s, ws) == IF Len(s) = 1 /\ s[1] \in ws THEN s[1] ELSE "UNKNOWN"

Parsed(difficulty, probType, plain) ==
  [difficulty |-> difficulty, probType |-> probType, plain |-> plain]

\* parsePrefix of the session list (sessions/page.tsx)
parsePrefix(problemText) ==
  IF problemText = <<>> THEN Parsed("UNKNOWN", "UNKNOWN", <<>>)
  ELSE LET parts == split(problemText)
           d == PartUpper(parts, 0)
           maybeType == PartUpper(parts, 1)
           hasType == AsWord(maybeType, PROB_TYPES) # "UNKNOWN"
           plain == IF hasType THEN Trim(join(sliceFrom(parts, 2)))
                    ELSE Trim(join(sliceFrom(parts, 1)))
       IN  Parsed(AsWord(d, DIFFICULTIES),
                  IF hasType THEN maybeType[1] ELSE "UNKNOWN",
                  IF plain # <<>> THEN plain ELSE problemText)

\* parsePrefix of the session detail page
parsePrefix_Detail(pt) ==
  IF pt = <<>> THEN Parsed("UNKNOWN", "UNKNOWN", <<>>)
  ELSE LET parts == split(pt)
           diff == PartUpper(parts, 0)
           type == PartUpper(parts, 1)
           plain == IF Len(parts) >= 3 THEN Trim(join(sliceFrom(parts, 2)))
                    ELSE IF Len(parts) >= 2 /\ parts[2] # <<>>
                    THEN Trim(join(sliceFrom(parts, 1)))
                    ELSE pt
       IN  Parsed(AsWord(diff, DIFFICULTIES), AsWord(type, PROB_TYPES), plain)

\* parsePrefix of the history page: the same code as the detail page's
parsePrefix_History(pt) == parsePrefix_Detail(pt)

stripPrefix_FirstOnly(text) ==
  LET first == indexOf(text, 1)
  IN  IF first = 0 THEN text ELSE Trim(SubSeq(text, first + 3, Len(text)))

\* stripPrefix of the generator page
stripPrefix(text) ==
  LET first == indexOf(text, 1)
      second == indexOf(text, first + 3)
  IN  IF first = 0 THEN text
      ELSE IF second = 0 THEN Trim(SubSeq(text, first + 3, Len(text)))
      ELSE Trim(SubSeq(text, second + 3, Len(text)))

\* parseDifficulty of the score route; the zero-width characters it removes
\* are not among the characters of the texts here
parseDifficulty(problemText) ==
  IF problemText = <<>> THEN "UNKNOWN"
  ELSE LET segments == splitBar(Trim(problemText))
           hits == {i \in 1..Len(segments) :
                      AsWord(TrimUpper(segments[i]), DIFFICULTIES) # "UNKNOWN"}
       IN  IF hits = {} THEN "UNKNOWN"
           ELSE TrimUpper(segments[CHOOSE i \in hits : \A j \in hits : i <= j])[1]

\* the hint route, lines 440-442: idx > 0 is an index past the first character
HintDifficulty(problem_text) ==
  LET idx == indexOf(problem_text, 1)
  IN  IF idx > 1 THEN TrimUpper(SubSeq(problem_text, 1, idx - 1))
      ELSE <<"UNKNOWN">>

HintPlainProblem(problem_text) ==
  LET idx == indexOf(problem_text, 1)
  IN  IF idx > 1 THEN Trim(SubSeq(problem_text, idx + 3, Len(problem_text)))
      ELSE problem_text

(***************************************************************************)
(* POST /hint                                                              *)
(***************************************************************************)
HintRow_AllColumns(session) == session

\* .select('id, problem_text'): the columns of the session the route reads
HintRow(session) == [problem_text |-> session.problem_text]

\* lines 440-457: what the prompt holds of the session
HintPrompt(row) ==
  [difficulty |-> HintDifficulty(Chars(row.problem_text)),
   plainProblem |-> HintPlainProblem(Chars(row.problem_text))]

HintFailure_Canned(msg) == Json(200, [hint |-> "canned"])

\* lines 474-476: the response when the loop ends without a hint
HintFailure(msg) == Json(500, ErrorBody(msg))

\* lines 418-457: the checks, the session lookup and the prompt
HintStart(sessionId, lookupOk) ==
  /\ StartRequest("hint", [sessionId |-> sessionId])
  /\ UNCHANGED <<sessions, submissions, apiKey, normVars, pageVars>>
  /\ IF ~apiKey
     THEN /\ Respond(Json(500, ErrorBody("Missing GEMINI_API_KEY")))
          /\ loc' = NoLoc /\ storeFailed' = FALSE
     ELSE IF sessionId = 0
     THEN /\ Respond(Json(400, ErrorBody("Missing sessionId")))
          /\ loc' = NoLoc /\ storeFailed' = FALSE
     ELSE IF ~SessionFound(sessionId, lookupOk)
     THEN /\ Respond(Json(404, ErrorBody("Session not found")))
          /\ loc' = NoLoc /\ storeFailed' = ~lookupOk
     ELSE /\ pc' = "hint"
          /\ resp' = NoResp
          /\ loc' = [k |-> 1, session |-> HintRow(sessions[sessionId]),
                     basePrompt |-> HintPrompt(HintRow(sessions[sessionId]))]
          /\ storeFailed' = FALSE

\* lines 459-476: one provider request of the loop, and what follows it
HintCall(outcome) ==
  /\ op = "hint" /\ pc = "hint"
  /\ calls' = Append(calls, [fn |-> "genHintText",
                             model |-> MODEL_CANDIDATES[loc.k],
                             prompt |-> loc.basePrompt,
                             ok |-> (outcome = "text")])
  /\ IF outcome = "text"
     THEN /\ Respond(Json(200, [hint |-> "ai"]))
          /\ loc' = loc
     ELSE IF loc.k < Len(MODEL_CANDIDATES)
     THEN /\ loc' = [loc EXCEPT !.k = NextCandidate(loc.k)]
          /\ pc' = pc /\ resp' = resp
     ELSE /\ Respond(HintFailure("All hint models failed"))
          /\ loc' = loc
  /\ UNCHANGED <<sessions, submissions, apiKey, op, req, storeFailed, before,
                 normVars, pageVars>>

(***************************************************************************)
(* Specification of POST /hint over stores of two sessions                 *)
(***************************************************************************)
\* a stored text in the two-field form of older rows
LegacyText == <<"EASY", " | ", "Problem text">>

HintTexts == {SeedText, LegacyText, <<"Problem text">>}

HintAnswers == {IntNum(10), IntNum(11)}

HintSessions == {Session(t, a) : t \in HintTexts, a \in HintAnswers}

InitHint ==
  /\ sessions \in {<<s1, s2>> : s1 \in HintSessions, s2 \in HintSessions}
  /\ submissions = <<>>
  /\ apiKey \in BOOLEAN
  /\ IdleRequest
  /\ normInput = <<>>
  /\ normResult = Pending
  /\ PageMounted

NextHint ==
  \/ \E sessionId \in 0..(Len(sessions) + 1), lookupOk \in BOOLEAN :
       /\ pc = "idle"
       /\ HintStart(sessionId, lookupOk)
  \/ \E outcome \in TextOutcomes : HintCall(outcome)

SpecHint == InitHint /\ [][NextHint]_vars

(***************************************************************************)
(* Specification of one request of any of the three routes that drive the  *)
(* provider, over a store that holds one session                           *)
(***************************************************************************)
InitOrch ==
  /\ sessions = <<Session(SeedText, IntNum(10))>>
  /\ submissions = <<>>
  /\ apiKey = TRUE
  /\ IdleRequest
  /\ normInput = <<>>
  /\ normResult = Pending
  /\ PageMounted

OrchAnswers == {Str(<<"1", "0">>), Str(<<"1", "1">>), Str(<<"1", "0", ".", "3">>)}

NextOrch ==
  \/ \E userAnswer \in OrchAnswers, lookupOk \in BOOLEAN :
       /\ pc = "idle"
       /\ SubmitStart(1, userAnswer, lookupOk)
  \/ \E outcome \in TextOutcomes : FeedbackCall(outcome)
  \/ \E outcome \in TextOutcomes : SolutionCall(outcome)
  \/ \E insertOk \in BOOLEAN : SubmitInsert(insertOk)
  \/ \E body \in GenBodies, probType \in PROB_TYPES, lastOk \in BOOLEAN,
        topic \in TOPICS :
       /\ pc = "idle"
       /\ GenerateStart(body, probType, lastOk, topic)
  \/ \E outcome \in GenOutcomes, topic2 \in TOPICS : GenCall(outcome, topic2)
  \/ \E insertOk \in BOOLEAN : GenInsert(insertOk)
  \/ \E fb \in FALLBACKS, insertOk \in BOOLEAN : GenFallback(fb, insertOk)
  \/ \E lookupOk \in BOOLEAN :
       /\ pc = "idle"
       /\ HintStart(1, lookupOk)
  \/ \E outcome \in TextOutcomes : HintCall(outcome)

SpecOrch == InitOrch /\ [][NextOrch]_vars

(***************************************************************************)
(* Properties of the orchestrator loops                                    *)
(***************************************************************************)
\* the provider requests of the loop fn, in the order they were made
CallsOf(fn) == SelectSeq(calls, LAMBDA c : c.fn = fn)

Range(f) == {f[i] : i \in DOMAIN f}

ModelIndex(model) ==
  CHOOSE k \in 1..Len(MODEL_CANDIDATES) : MODEL_CANDIDATES[k] = model

\* a request of generateOnce that ended its candidate in failure
GenFailed(c) ==
  c.got = "threw" \/ (c.got = "unusable" /\ c.prompt = "simple")

TextLoops == {"getFeedback", "getStepByStepSolution", "genHintText"}

\* a loop of single requests: the i-th request goes to the i-th candidate,
\* and only the last request can have succeeded
TextLoopInOrder(fn) ==
  LET cs == CallsOf(fn)
  IN  /\ \A i \in 1..Len(cs) : cs[i].model = MODEL_CANDIDATES[i]
      /\ \A i \in 1..(Len(cs) - 1) : ~cs[i].ok

\* generateOnce: the first request goes to the first candidate, a request
\* that ended its candidate in failure is followed by the next candidate,
\* any other request by the same candidate, and a success by nothing
GenLoopInOrder ==
  LET cs == CallsOf("generateOnce")
  IN  /\ cs # <<>> => cs[1].model = MODEL_CANDIDATES[1]
      /\ \A i \in 1..(Len(cs) - 1) :
           /\ cs[i].got # "usable"
           /\ IF GenFailed(cs[i])
              THEN ModelIndex(cs[i + 1].model) = ModelIndex(cs[i].model) + 1
              ELSE cs[i + 1].model = cs[i].model

\* the result carries the model of the request that succeeded
Attributed ==
  /\ op = "submit" =>
       /\ \A c \in Range(CallsOf("getFeedback")) :
            c.ok => loc.feedbackModel = c.model
       /\ \A c \in Range(CallsOf("getStepByStepSolution")) :
            c.ok => loc.solutionModel = c.model
       /\ (SubmitOk /\ \E i \in 1..Len(calls) : calls[i].ok) =>
            /\ resp.headers.feedbackModel = loc.feedbackModel
            /\ resp.headers.solutionModel = loc.solutionModel
  /\ op = "generate" =>
       /\ \A c \in Range(CallsOf("generateOnce")) :
            c.got = "usable" => loc.gen.modelUsed = c.model
       /\ (pc = "done" /\ resp.headers.generator = "ai") =>
            /\ calls # <<>> /\ calls[Len(calls)].got = "usable"
            /\ resp.headers.model = calls[Len(calls)].model
  /\ (op = "hint" /\ pc = "done" /\ resp.status = 200) =>
       calls # <<>> /\ calls[Len(calls)].ok

\* C11: in every loop the candidates are requested one after the other in
\* list order: the next candidate only after the one before has failed, none
\* after a success, and the result is attributed to the first candidate
\* that succeeds.
C11_SequentialInListOrder ==
  /\ \A fn \in TextLoops : TextLoopInOrder(fn)
  /\ GenLoopInOrder
  /\ Attributed

C11_Witness ==
  /\ op = "generate" /\ pc = "done"
  /\ resp.headers.model = MODEL_CANDIDATES[2]
  /\ Len(calls) = 3
  /\ calls[1].got = "unusable" /\ calls[2].got = "threw"
  /\ calls[3].got = "usable"

\* the request that follows the i-th request of generateOnce: the (i+1)-th
\* one, or the one the loop is about to make
GenFollowedBy(i, model, prompt, mode) ==
  LET cs == CallsOf("generateOnce")
  IN  IF i < Len(cs)
      THEN /\ cs[i + 1].model = model
           /\ cs[i + 1].prompt = prompt
           /\ cs[i + 1].mode = mode
      ELSE /\ pc = "gen"
           /\ MODEL_CANDIDATES[loc.k] = model
           /\ loc.attempt = (IF prompt = "full" THEN 1 ELSE 2)
           /\ loc.mode = mode

\* C12: in generateOnce a text of the first attempt that extraction or
\* validation rejects is followed by a request to the same model with the
\* simplified prompt, a JSON-mode request that gave nothing by the plain
\* request to the same model with the same prompt, and a usable text ends
\* the loop with the result attributed to the model that returned it.
C12_RetrySameModel ==
  op = "generate" =>
    LET cs == CallsOf("generateOnce")
    IN  \A i \in 1..Len(cs) :
          /\ (cs[i].got = "unusable" /\ cs[i].prompt = "full") =>
               GenFollowedBy(i, cs[i].model, "simple", "json")
          /\ cs[i].got = "nothing" =>
               /\ cs[i].mode = "json"
               /\ GenFollowedBy(i, cs[i].model, cs[i].prompt, "plain")
          /\ cs[i].got = "usable" =>
               /\ i = Len(cs)
               /\ pc # "gen"
               /\ loc.gen.modelUsed = cs[i].model

C12_Witness ==
  /\ op = "generate" /\ pc = "done"
  /\ resp.headers.generator = "ai"
  /\ resp.headers.model = MODEL_CANDIDATES[1]
  /\ Len(calls) = 4
  /\ calls[1].got = "nothing" /\ calls[2].got = "unusable"
  /\ calls[3].got = "nothing" /\ calls[4].got = "usable"
  /\ calls[4].prompt = "simple" /\ calls[4].mode = "plain"

\* C13: one pass of a loop over the N candidates makes at most 2*N provider
\* requests and never goes back to an earlier candidate.
C13_AtMostTwoRequestsPerCandidate ==
  \A fn \in TextLoops \cup {"generateOnce"} :
    LET cs == CallsOf(fn)
    IN  /\ Len(cs) <= 2 * Len(MODEL_CANDIDATES)
        /\ \A i \in 1..(Len(cs) - 1) :
             ModelIndex(cs[i].model) <= ModelIndex(cs[i + 1].model)

\* the stored text is the generated text behind a prefix
SameProblem(generated, stored) ==
  \E d \in DIFFICULTIES, t \in PROB_TYPES :
    stored = Prefixed(d, t, Trim(generated))

\* C14: a generated problem that is the problem of the most recently stored
\* session is not stored by the first run of the generation: the generation
\* is run a second time.
C14_DedupeAgainstLast ==
  (op = "generate" /\ pc = "insert" /\ loc.last.has
     /\ SameProblem(loc.gen.parsed.problem_text, loc.last.problem_text)) =>
    loc.pass = 2

\* the sessions the request has created
Created == {i \in 1..Len(sessions) : i > Len(before.sessions)}

\* "<DIFFICULTY> | <TYPE> | <plain text>"
WellFormed(problem_text) ==
  /\ Len(problem_text) >= 5
  /\ problem_text[1] \in DIFFICULTIES
  /\ problem_text[2] = " | "
  /\ problem_text[3] \in PROB_TYPES
  /\ problem_text[4] = " | "

\* C20: every session POST /generate creates, on the AI path and on the
\* fallback path, has a problem_text of the form
\* "<DIFFICULTY> | <TYPE> | <plain text>" with one of the three difficulties
\* and one of the four types.
C20_StoredTextIsPrefixed ==
  op = "generate" =>
    \A i \in Created : WellFormed(sessions[i].problem_text)

C20_Witness ==
  /\ op = "generate" /\ pc = "done"
  /\ resp.headers.generator = "ai"
  /\ req.difficulty = Absent /\ req.probType = Word("sum")
  /\ Created = {Len(sessions)}
  /\ sessions[Len(sessions)].problem_text =
       <<"MEDIUM", " | ", "SUBTRACTION", " | ", "Problem text">>

(***************************************************************************)
(* Properties of POST /hint                                                *)
(***************************************************************************)
\* the request found its session and went on to the provider
HintPrompted == op = "hint" /\ pc \in {"hint", "done"} /\ loc # NoLoc

\* C15: the hint route reads only problem_text of the session, and the
\* prompt of every provider request is the prompt of any stored session
\* with the same problem_text, whatever its correct_answer.
C15_PromptIgnoresAnswer ==
  HintPrompted =>
    /\ "correct_answer" \notin DOMAIN loc.session
    /\ \A c \in Range(calls), j \in 1..Len(sessions) :
         sessions[j].problem_text = sessions[req.sessionId].problem_text =>
           c.prompt = HintPrompt(HintRow(sessions[j]))

C15_Witness ==
  /\ HintPrompted /\ pc = "done" /\ resp.status = 200
  /\ Len(calls) = 2
  /\ req.sessionId = 1
  /\ sessions[1].problem_text = sessions[2].problem_text
  /\ sessions[1].correct_answer # sessions[2].correct_answer
  /\ calls[2].prompt = [difficulty |-> <<"HARD">>,
                        plainProblem |-> <<"DIVISION">> \o Sep
                                           \o <<"Problem text">>]

\* every candidate was requested for the hint and none returned a text
AllHintFailed ==
  /\ op = "hint"
  /\ Len(calls) = Len(MODEL_CANDIDATES)
  /\ \A i \in 1..Len(calls) : ~calls[i].ok

\* C16: when every candidate fails for a hint, the response is a 500-class
\* error without a hint, and the store is as it was.
C16_HintFailureIs500 ==
  (pc = "done" /\ AllHintFailed) =>
    /\ resp.status >= 500
    /\ "hint" \notin DOMAIN resp.body
    /\ StoreUnchanged

C16_Witness ==
  /\ pc = "done" /\ AllHintFailed
  /\ resp = Json(500, ErrorBody("All hint models failed"))

(***************************************************************************)
(* GET /score                                                              *)
(***************************************************************************)
MaxScoreRows == 4    \* score: submissions are stored while fewer rows exist

RECURSIVE firstBySession_Last(_)
firstBySession_Last(subs) ==
  IF subs = <<>> THEN <<>>
  ELSE LET s == subs[1]
           rest == firstBySession_Last(Tail(subs))
       IN  IF \E i \in 1..Len(rest) : rest[i].session_id = s.session_id
           THEN rest
           ELSE <<[session_id |-> s.session_id, is_correct |-> s.is_correct]>>
                  \o rest

RECURSIVE firstBySession(_)
\* lines 36-45: the entries of the map, in the order they were set; subs is
\* in the order of created_at
firstBySession(subs) ==
  IF subs = <<>> THEN <<>>
  ELSE LET s == subs[Len(subs)]
           map == firstBySession(SubSeq(subs, 1, Len(subs) - 1))
       IN  IF \E i \in 1..Len(map) : map[i].session_id = s.session_id
           THEN map
           ELSE Append(map, [session_id |-> s.session_id,
                             is_correct |-> s.is_correct])

difficultyBySession_Unknown(sessionId) == "UNKNOWN"

\* lines 71-74 and 85: the difficulty of a session of the second query
difficultyBySession(sessionId) ==
  IF sessionId \in 1..Len(sessions)
  THEN parseDifficulty(Chars(sessions[sessionId].problem_text))
  ELSE "UNKNOWN"

Bucket(attempted, score) == [attempted |-> attempted, score |-> score]

ScoreBody(attempted, score, byDifficulty) ==
  [attempted |-> attempted, score |-> score, byDifficulty |-> byDifficulty]

ZeroBuckets == [d \in DIFFICULTIES |-> Bucket(0, 0)]

RECURSIVE Tally(_)
\* lines 77-93: totalScore and byDifficulty after the entries of the map
Tally(map) ==
  IF map = <<>> THEN ScoreBody(0, 0, ZeroBuckets)
  ELSE LET t == Tally(SubSeq(map, 1, Len(map) - 1))
           first == map[Len(map)]
           diff == difficultyBySession(first.session_id)
           firstScore == IF first.is_correct THEN 1 ELSE 0
       IN  ScoreBody(
             0, t.score + firstScore,
             IF diff \in DIFFICULTIES
             THEN [t.byDifficulty EXCEPT
                     ![diff] = Bucket(@.attempted + 1, @.score + firstScore)]
             ELSE t.byDifficulty)

\* lines 25-103
GetScore(subsOk, sessOk) ==
  /\ StartRequest("score", NoReq)
  /\ loc' = NoLoc
  /\ LET map == firstBySession(submissions)
         t == Tally(map)
     IN  IF ~subsOk
         THEN /\ Respond(Json(500, ErrorBody("store error")))
              /\ storeFailed' = TRUE
         ELSE IF Len(map) = 0
         THEN /\ Respond(Json(200, ScoreBody(0, 0, ZeroBuckets)))
              /\ storeFailed' = FALSE
         ELSE IF ~sessOk
         THEN /\ Respond(Json(500, ErrorBody("store error")))
              /\ storeFailed' = TRUE
         ELSE /\ Respond(Json(200, ScoreBody(Len(map), t.score,
                                             t.byDifficulty)))
              /\ storeFailed' = FALSE
  /\ UNCHANGED <<sessions, submissions, apiKey, normVars, pageVars>>

\* a POST /submit that ran to its insert (route.ts lines 224-233), as the
\* score route sees it: one more row, the latest by created_at
StoreSubmission(sessionId, isCorrect) ==
  /\ Len(submissions) < MaxScoreRows
  /\ submissions' = Append(submissions,
                           Submission(sessionId, IntNum(0), isCorrect,
                                      Feedback("ai", NoSolution)))
  /\ UNCHANGED <<sessions, apiKey, op, pc, req, loc, resp, calls, storeFailed,
                 before, normVars, pageVars>>

(***************************************************************************)
(* Specification of GET /score between submissions, over a store of three  *)
(* sessions: one prefixed, one in the two-field form, one without prefix   *)
(***************************************************************************)
InitScore ==
  /\ sessions = <<Session(SeedText, IntNum(10)), Session(LegacyText, IntNum(10)),
                  Session(<<"Problem text">>, IntNum(10))>>
  /\ submissions = <<>>
  /\ apiKey = TRUE
  /\ IdleRequest
  /\ normInput = <<>>
  /\ normResult = Pending
  /\ PageMounted

NextScore ==
  \/ \E sessionId \in 1..Len(sessions), isCorrect \in BOOLEAN :
       StoreSubmission(sessionId, isCorrect)
  \/ \E subsOk \in BOOLEAN, sessOk \in BOOLEAN : GetScore(subsOk, sessOk)

SpecScore == InitScore /\ [][NextScore]_vars

(***************************************************************************)
(* Properties of GET /score                                                *)
(***************************************************************************)
\* the sessions that have a submission among subs
Attempted(subs) == {subs[i].session_id : i \in 1..Len(subs)}

\* the earliest submission of a session
Earliest(subs, sessionId) ==
  subs[CHOOSE i \in 1..Len(subs) :
         /\ subs[i].session_id = sessionId
         /\ \A j \in 1..(i - 1) : subs[j].session_id # sessionId]

\* the sessions whose earliest submission is correct
FirstCorrect(subs) ==
  {id \in Attempted(subs) : Earliest(subs, id).is_correct}

\* the sessions whose stored text starts with the difficulty d
OfDifficulty(d) ==
  {id \in 1..Len(sessions) : sessions[id].problem_text[1] = d}

ScoreOk == op = "score" /\ pc = "done" /\ resp.status = 200

\* C17: the payload counts the sessions that have a submission, those whose
\* earliest submission is correct, and both per difficulty of the session's
\* text; submissions stored later for sessions already attempted leave
\* every value of the payload as it is.
C17_FirstSubmissionOnly ==
  ScoreOk =>
    LET subs == before.submissions
        later == {submissions[i].session_id :
                    i \in (Len(subs) + 1)..Len(submissions)}
    IN  /\ resp.body.attempted = Cardinality(Attempted(subs))
        /\ resp.body.score = Cardinality(FirstCorrect(subs))
        /\ \A d \in DIFFICULTIES :
             resp.body.byDifficulty[d] =
               Bucket(Cardinality(Attempted(subs) \cap OfDifficulty(d)),
                      Cardinality(FirstCorrect(subs) \cap OfDifficulty(d)))
        /\ later \subseteq Attempted(subs) =>
             LET map == firstBySession(submissions)
             IN  resp.body = ScoreBody(Len(map), Tally(map).score,
                                       Tally(map).byDifficulty)

C17_Witness ==
  /\ ScoreOk
  /\ Len(before.submissions) = 3 /\ Len(submissions) = 4
  /\ before.submissions[1].session_id = 1 /\ ~before.submissions[1].is_correct
  /\ before.submissions[2].session_id = 1 /\ before.submissions[2].is_correct
  /\ before.submissions[3].session_id = 2 /\ before.submissions[3].is_correct
  /\ submissions[4].session_id = 1 /\ submissions[4].is_correct
  /\ resp.body.attempted = 2 /\ resp.body.score = 1
  /\ resp.body.byDifficulty["HARD"] = Bucket(1, 0)
  /\ resp.body.byDifficulty["EASY"] = Bucket(1, 1)

(***************************************************************************)
(* Specification of the readers of problem_text: a store of one session    *)
(* whose text has the three-field or the two-field form, and one reading   *)
(* of it by every reader                                                   *)
(***************************************************************************)
MaxText == 3         \* readers: plain texts up to this number of pieces

\* the pieces of a plain text: a character that is not a blank or a bar, a
\* blank, a bar, a whole separator
PlainPieces == {"7", " ", "|", " | "}

PlainTexts == StringsUpTo(PlainPieces, MaxText) \ {<<>>}

\* "<DIFFICULTY> | <plain text>", the form of older rows
Legacy(difficulty, text) == <<difficulty, " | ">> \o text

StoredTexts ==
  {Prefixed(d, t, x) : d \in DIFFICULTIES, t \in PROB_TYPES, x \in PlainTexts}
  \cup {Legacy(d, x) : d \in DIFFICULTIES, x \in PlainTexts}

\* the session list, the detail page, the history page, the generator
\* page, the score route and the hint route read the text of session 1
ReadPrefix ==
  /\ pc = "idle"
  /\ StartRequest("read", [sessionId |-> 1])
  /\ LET text == Chars(sessions[1].problem_text)
     IN  Respond(Json(200, [list |-> parsePrefix(text),
                            detail |-> parsePrefix_Detail(text),
                            history |-> parsePrefix_History(text),
                            generator |-> stripPrefix(text),
                            score |-> parseDifficulty(text),
                            hint |-> HintPrompt(HintRow(sessions[1]))]))
  /\ loc' = NoLoc
  /\ storeFailed' = FALSE
  /\ UNCHANGED <<sessions, submissions, apiKey, normVars, pageVars>>

InitPrefix ==
  /\ sessions \in {<<Session(text, IntNum(10))>> : text \in StoredTexts}
  /\ submissions = <<>>
  /\ apiKey = TRUE
  /\ IdleRequest
  /\ normInput = <<>>
  /\ normResult = Pending
  /\ PageMounted

NextPrefix == ReadPrefix

SpecPrefix == InitPrefix /\ [][NextPrefix]_vars

(***************************************************************************)
(* Properties of the readers                                               *)
(***************************************************************************)
ReadDone == op = "read" /\ pc = "done"

\* a text without blanks at its ends
Trimmed(x) == Chars(x) = Trim(Chars(x))

\* the four prefix readers give difficulty d, type t and plain text x
ReadAs(d, t, x) ==
  /\ resp.body.list = Parsed(d, t, Chars(x))
  /\ resp.body.detail = Parsed(d, t, Chars(x))
  /\ resp.body.history = Parsed(d, t, Chars(x))
  /\ resp.body.generator = Chars(x)

\* C18 as stated: every reader maps "d | t | x" back to d, t and x, for
\* every non-empty plain text x.
C18_Original ==
  ReadDone =>
    \A d \in DIFFICULTIES, t \in PROB_TYPES, x \in PlainTexts :
      sessions[1].problem_text = Prefixed(d, t, x) => ReadAs(d, t, x)

\* C18 amended: every reader maps "d | t | x" back to d, t and x, for every
\* non-empty plain text x that has no blank at either end (x may contain
\* " | ").
C18_Amended ==
  ReadDone =>
    \A d \in DIFFICULTIES, t \in PROB_TYPES, x \in PlainTexts :
      (sessions[1].problem_text = Prefixed(d, t, x) /\ Trimmed(x)) =>
        ReadAs(d, t, x)

C18_Witness ==
  /\ ReadDone
  /\ sessions[1].problem_text = Prefixed("HARD", "DIVISION", <<"7", " | ", "7">>)
  /\ resp.body.list = Parsed("HARD", "DIVISION", <<"7", " ", "|", " ", "7">>)
  /\ resp.body.generator = <<"7", " ", "|", " ", "7">>

\* C19: every reader reads the two-field text "d | x" as difficulty d, type
\* UNKNOWN and plain text x, the whole of x also when x contains " | "
\* (stated for the texts x without a blank at either end).
C19_LegacyFormTolerated ==
  ReadDone =>
    \A d \in DIFFICULTIES, x \in PlainTexts :
      (sessions[1].problem_text = Legacy(d, x) /\ Trimmed(x)) =>
        /\ ReadAs(d, "UNKNOWN", x)
        /\ resp.body.score = d
        /\ resp.body.hint = [difficulty |-> <<d>>, plainProblem |-> Chars(x)]

(***************************************************************************)
(* Specification of the store under requests of the four routes.  One      *)
(* request is followed step by step; the other requests in flight touch    *)
(* what the handlers share, the store, by their one insert, which happens  *)
(* between any two steps of the request that is followed.                  *)
(***************************************************************************)
MaxSessions == 2     \* store: generate requests are taken while fewer sessions exist

\* the insert of a POST /generate running beside the request followed
\* (NavBar.tsx lines 326-333 and 368-372)
ConcurrentGenerate(row) ==
  /\ Len(sessions) < MaxSessions
  /\ sessions' = Append(sessions, row)
  /\ UNCHANGED <<submissions, apiKey, op, pc, req, loc, resp, calls,
                 storeFailed, before, normVars, pageVars>>

\* the insert of a POST /submit running beside the request followed
\* (route.ts lines 224-233)
ConcurrentSubmit(sessionId, isCorrect) ==
  /\ Len(submissions) < MaxSubmissions
  /\ sessionId \in 1..Len(sessions)
  /\ submissions' = Append(submissions,
                           Submission(sessionId, IntNum(0), isCorrect,
                                      Feedback("ai", NoSolution)))
  /\ UNCHANGED <<sessions, apiKey, op, pc, req, loc, resp, calls, storeFailed,
                 before, normVars, pageVars>>

StoreAnswers == {Str(<<"1", "0">>), Str(<<"1", "1">>), Str(<<"a", "b", "c">>)}

StoreBody == [difficulty |-> Word("EASY"), probType |-> Word("ADDITION")]

StoreOutcomes ==
  {[r |-> "throw", text |-> ModelText("none", Payload("broken", <<>>, IntNum(0)))],
   [r |-> "text",
    text |-> ModelText("bare", Payload("problem", <<"Problem text">>, IntNum(10)))]}

InitStore ==
  /\ sessions = <<Session(SeedText, IntNum(10))>>
  /\ submissions = <<>>
  /\ apiKey = TRUE
  /\ IdleRequest
  /\ normInput = <<>>
  /\ normResult = Pending
  /\ PageMounted

NextStore ==
  \/ \E sessionId \in 0..(Len(sessions) + 1), userAnswer \in StoreAnswers,
        lookupOk \in BOOLEAN :
       /\ Len(submissions) < MaxSubmissions
       /\ SubmitStart(sessionId, userAnswer, lookupOk)
  \/ FeedbackCall("text")
  \/ \E outcome \in {"throw", "text"} : SolutionCall(outcome)
  \/ \E insertOk \in BOOLEAN : SubmitInsert(insertOk)
  \/ \E lastOk \in BOOLEAN :
       /\ Len(sessions) < MaxSessions
       /\ GenerateStart(StoreBody, "ADDITION", lastOk, 1)
  \/ \E outcome \in StoreOutcomes : GenCall(outcome, 2)
  \/ \E insertOk \in BOOLEAN : GenInsert(insertOk)
  \/ \E fb \in {f \in FALLBACKS : f.final_answer = IntNum(34)},
        insertOk \in BOOLEAN : GenFallback(fb, insertOk)
  \/ \E sessionId \in 1..Len(sessions), lookupOk \in BOOLEAN :
       HintStart(sessionId, lookupOk)
  \/ HintCall("text")
  \/ \E subsOk \in BOOLEAN, sessOk \in BOOLEAN : GetScore(subsOk, sessOk)
  \/ \E fb \in {f \in FALLBACKS : f.final_answer = IntNum(34)} :
       ConcurrentGenerate(FallbackSession(fb))
  \/ \E sessionId \in 1..Len(sessions) : ConcurrentSubmit(sessionId, FALSE)

SpecStore == InitStore /\ [][NextStore]_vars

(***************************************************************************)
(* Properties of the store                                                 *)
(***************************************************************************)
\* a step keeps every session of the store, as it is
SessionsKept ==
  \A i \in 1..Len(sessions) :
    i <= Len(sessions') /\ sessions'[i] = sessions[i]

\* the submit followed has passed its checks
SubmitGrading ==
  op = "submit" /\ (pc \in {"feedback", "solution", "insert"} \/ SubmitOk)

\* the grading of the submit followed is that of its parsed answer against
\* the answer the store holds for its session
GradedAgainstStored ==
  SubmitGrading =>
    /\ loc.correct = sessions[req.sessionId].correct_answer
    /\ loc.isCorrect =
         Leq(AbsDiff(loc.parsed, sessions[req.sessionId].correct_answer), EPS)
    /\ SubmitOk => resp.body.is_correct = loc.isCorrect

\* C21: no step of a generate, submit, hint or score request, nor an insert
\* of a request running beside it, changes or removes a session that
\* exists, and every submit is graded against the correct_answer the store
\* holds for its session since it was created.
C21_SessionsImmutable == [][SessionsKept]_vars /\ []GradedAgainstStored

C21_Witness ==
  /\ SubmitOk
  /\ req.sessionId = 1
  /\ Len(before.sessions) = 1 /\ Len(sessions) = 2
  /\ sessions[1] = Session(SeedText, IntNum(10))
  /\ resp.body.is_correct

\* a step keeps every submission, as it is, and adds at most one
SubmissionsKept ==
  /\ Len(submissions') \in {Len(submissions), Len(submissions) + 1}
  /\ SubSeq(submissions', 1, Len(submissions)) = submissions

\* the step with which the submit followed responds
SubmitResponds == pc # "done" /\ pc' = "done" /\ op' = "submit"

\* C22: no step updates or deletes a submission; the step with which a
\* POST /submit responds 200 adds exactly one row, which holds the
\* request's session_id, the parsed answer rounded to 2 decimals, the
\* is_correct and the feedback of the response; the step with which it
\* responds 400, 404 or 500 adds none.
C22_SubmissionsAppendOnly ==
  [][/\ SubmissionsKept
     /\ SubmitResponds =>
          IF resp'.status = 200
          THEN submissions' =
                 Append(submissions,
                        [session_id |-> req'.sessionId,
                         user_answer |-> round2(loc.parsed),
                         is_correct |-> resp'.body.is_correct,
                         feedback_text |-> resp'.body.feedback])
          ELSE /\ resp'.status \in {400, 404, 500}
               /\ submissions' = submissions]_vars

C22_Witness ==
  /\ SubmitOk
  /\ Len(before.submissions) = 0 /\ Len(submissions) = 2
  /\ submissions[1].feedback_text = Feedback("ai", NoSolution)
  /\ submissions[2].session_id = req.sessionId
  /\ submissions[2].feedback_text = resp.body.feedback
  /\ submissions[2].feedback_text.steps.src = "canned"
  /\ submissions[2].user_answer = IntNum(11)

SolutionCalls == SelectSeq(calls, LAMBDA c : c.fn = "getStepByStepSolution")

AllSolutionFailed ==
  /\ Len(SolutionCalls) = Len(MODEL_CANDIDATES)
  /\ \A i \in 1..Len(SolutionCalls) : ~SolutionCalls[i].ok

MissingFields ==
  req.sessionId = 0 \/ req.userAnswer.t \in {"undefined", "null"}

\* lines 174-175: the answer is one the parser turns down
AnswerRejected ==
  /\ req.userAnswer.t = "string"
  /\ parseNumericOrFraction(req.userAnswer.s) = Null

SubmitRejected == SubmitDone /\ (resp.status \in {400, 404} \/ ~apiKey)

\* C24: POST /submit checks, in this order, the API key (500), the two
\* fields of the body (400), the session (404) and the answer (400): a
\* request for an unknown session with an unparseable answer gets 404; a
\* request rejected by one of the checks issues no provider request and
\* stores nothing.
C24_CheckOrder ==
  /\ SubmitDone =>
       IF ~apiKey
       THEN resp = Json(500, ErrorBody("Missing GEMINI_API_KEY"))
       ELSE IF MissingFields
       THEN resp = Json(400, ErrorBody("Missing sessionId or userAnswer"))
       ELSE IF NoSuchSession(req.sessionId)
       THEN resp = Json(404, ErrorBody("Session not found"))
       ELSE (AnswerRejected /\ ~storeFailed) =>
              resp = Json(400, ErrorBody("Please enter a valid number"))
  /\ SubmitRejected => calls = <<>> /\ StoreUnchanged

C24_Witness ==
  /\ SubmitDone /\ apiKey
  /\ ~MissingFields /\ NoSuchSession(req.sessionId) /\ AnswerRejected
  /\ resp.status = 404
  /\ calls = <<>> /\ submissions = <<>>

\* C25: every response of POST /generate that carries a problem carries the
\* sessionId of a stored session whose problem_text and correct_answer are
\* the problem_text and final_answer of the response, on the AI path and on
\* the fallback path.
C25_ResponseNamesStoredSession ==
  (GenDone /\ resp.status = 200) =>
    /\ resp.body.sessionId \in 1..Len(sessions)
    /\ sessions[resp.body.sessionId] =
         Session(resp.body.problem.problem_text,
                 resp.body.problem.final_answer)

\* the request names one of the difficulties and one of the types
ValidRequest ==
  /\ req.difficulty.t = "string" /\ req.difficulty.w \in DIFFICULTIES
  /\ req.probType.t = "string" /\ req.probType.w \in PROB_TYPES

\* C26: when the request names one of EASY, MEDIUM, HARD and one of the four
\* types, the difficulty and probType of the response, and of the prefix of
\* the problem_text stored for it, are the requested ones.
C26_RequestedDifficultyAndType ==
  (GenDone /\ resp.status = 200 /\ ValidRequest) =>
    /\ resp.body.difficulty = req.difficulty.w
    /\ resp.body.probType = req.probType.w
    /\ resp.body.sessionId # 0 =>
         SubSeq(sessions[resp.body.sessionId].problem_text, 1, 4) =
           <<req.difficulty.w, " | ", req.probType.w, " | ">>

\* C27: the readers of problem_text agree on every stored text: the list's,
\* the detail page's and the history page's parsePrefix give the same
\* difficulty, type and plain text, the score route's parseDifficulty gives
\* their difficulty, and the plain problem text of the hint prompt is their
\* plain text.
C27_ReadersAgree ==
  ReadDone =>
    /\ resp.body.list = resp.body.detail
    /\ resp.body.detail = resp.body.history
    /\ resp.body.score = resp.body.list.difficulty
    /\ resp.body.hint.plainProblem = resp.body.list.plain

\* C28: in every state generate and submit requests lead to, the payload
\* of GET /score is consistent: attempted is the sum of the attempted of
\* the EASY, MEDIUM and HARD buckets, score is the sum of their scores, and
\* score <= attempted overall and in every bucket.
C28_ScorePayloadConsistent ==
  ScoreOk =>
    LET by == resp.body.byDifficulty
    IN  /\ resp.body.attempted =
             by["EASY"].attempted + by["MEDIUM"].attempted + by["HARD"].attempted
        /\ resp.body.score = by["EASY"].score + by["MEDIUM"].score + by["HARD"].score
        /\ resp.body.score <= resp.body.attempted
        /\ \A d \in DIFFICULTIES : by[d].score <= by[d].attempted

C28_Witness ==
  /\ ScoreOk
  /\ resp.body.attempted = 2 /\ resp.body.score = 1
  /\ resp.body.byDifficulty["HARD"] = Bucket(1, 1)
  /\ resp.body.byDifficulty["EASY"] = Bucket(1, 0)

(***************************************************************************)
(* The generator page (part_000): its items, and the fetches it has in     *)
(* flight; a fetch settles at any later moment, with a response or with a  *)
(* failure                                                                 *)
(***************************************************************************)
MaxItems == 2       \* page: problems are generated while fewer items exist
MaxInFlight == 2    \* page: fetches are issued while fewer are in flight

\* the values typed into the answer box
TypedAnswers == {<<>>, <<" ">>, <<"7">>}

NoResult == [of |-> 0]

\* data.feedback, data.is_correct and data.hint of the response to a
\* request: the server computes them for the session the request names
ResultFor(sessionId) == [of |-> sessionId]

\* lines 292-302: the item generateProblem builds from a response
NewItem(sessionId) ==
  [sessionId |-> sessionId, userAnswer |-> <<>>, isSubmitting |-> FALSE,
   feedback |-> NoResult, isCorrect |-> "null", hint |-> NoResult,
   isHinting |-> FALSE]

Fetch(fn, idx, sessionId) == [fn |-> fn, idx |-> idx, sessionId |-> sessionId]

\* prev.map((it, i) => (i === idx ? f(it) : it)), with i counted from 0
MapAt(prev, idx, changed) ==
  [i \in 1..Len(prev) |-> IF i - 1 = idx THEN changed ELSE prev[i]]

Settle(k) == inflight' = SubSeq(inflight, 1, k - 1)
                           \o SubSeq(inflight, k + 1, Len(inflight))

\* the card and its controls are rendered, and the overlay shown while
\* generating (lines 51-59 and 606) does not cover them
CardShown == hasStarted /\ ~isGenerating /\ activeIdx + 1 \in 1..Len(items)

active == items[activeIdx + 1]

\* lines 254-258
startSession ==
  /\ ~hasStarted
  /\ hasStarted' = TRUE
  /\ items' = <<>>
  /\ activeIdx' = 0
  /\ UNCHANGED <<throwDir, isGenerating, inflight, sysVars, normVars>>

\* lines 279-287: the click on "Generate New Problem", up to the fetch
generateProblem ==
  /\ hasStarted /\ ~isGenerating
  /\ Len(items) < MaxItems /\ Len(inflight) < MaxInFlight
  /\ isGenerating' = TRUE
  /\ inflight' = Append(inflight, Fetch("generate", 0, 0))
  /\ UNCHANGED <<items, activeIdx, throwDir, hasStarted, sysVars, normVars>>

\* lines 288-312: the fetch of generateProblem settles; sessionId is the
\* id of the response (0: undefined)
GenerateSettles(k, ok, sessionId) ==
  /\ k \in 1..Len(inflight) /\ inflight[k].fn = "generate"
  /\ Settle(k)
  /\ IF ok
     THEN /\ items' = <<NewItem(sessionId)>> \o items
          /\ activeIdx' = 0
     ELSE UNCHANGED <<items, activeIdx>>
  /\ isGenerating' = FALSE
  /\ UNCHANGED <<throwDir, hasStarted, sysVars, normVars>>

\* lines 506-509: typing into the answer box of the item shown
onChange(val) ==
  /\ CardShown
  /\ items' = MapAt(items, activeIdx, [active EXCEPT !.userAnswer = val])
  /\ UNCHANGED <<activeIdx, throwDir, isGenerating, hasStarted, inflight,
                 sysVars, normVars>>

\* lines 315-329: the click on "Submit Answer" (enabled by line 525), up
\* to the fetch
submitAnswer ==
  /\ CardShown
  /\ ~active.isSubmitting /\ Trim(active.userAnswer) # <<>>
  /\ Len(inflight) < MaxInFlight
  /\ IF active.sessionId = 0
     THEN UNCHANGED <<items, inflight>>
     ELSE /\ items' = MapAt(items, activeIdx,
                            [active EXCEPT !.isSubmitting = TRUE])
          /\ inflight' = Append(inflight,
                                Fetch("submit", activeIdx, active.sessionId))
  /\ UNCHANGED <<activeIdx, throwDir, isGenerating, hasStarted, sysVars,
                 normVars>>

\* lines 330-345: the fetch of submitAnswer settles
SubmitSettles(k, ok, isCorrect) ==
  /\ k \in 1..Len(inflight) /\ inflight[k].fn = "submit"
  /\ Settle(k)
  /\ LET idx == inflight[k].idx
     IN  IF idx + 1 \in 1..Len(items)
         THEN items' =
                MapAt(items, idx,
                      IF ok
                      THEN [items[idx + 1] EXCEPT
                              !.isSubmitting = FALSE,
                              !.feedback = ResultFor(inflight[k].sessionId),
                              !.isCorrect = isCorrect]
                      ELSE [items[idx + 1] EXCEPT !.isSubmitting = FALSE])
         ELSE items' = items
  /\ UNCHANGED <<activeIdx, throwDir, isGenerating, hasStarted, sysVars,
                 normVars>>

\* lines 260-269: the click on "Get hint" (enabled by line 517), up to the
\* fetch
getHint ==
  /\ CardShown
  /\ ~active.isHinting
  /\ Len(inflight) < MaxInFlight
  /\ IF active.sessionId = 0
     THEN UNCHANGED <<items, inflight>>
     ELSE /\ items' = MapAt(items, activeIdx,
                            [active EXCEPT !.isHinting = TRUE])
          /\ inflight' = Append(inflight,
                                Fetch("hint", activeIdx, active.sessionId))
  /\ UNCHANGED <<activeIdx, throwDir, isGenerating, hasStarted, sysVars,
                 normVars>>

\* lines 270-276: the fetch of getHint settles
HintSettles(k, ok) ==
  /\ k \in 1..Len(inflight) /\ inflight[k].fn = "hint"
  /\ Settle(k)
  /\ LET idx == inflight[k].idx
     IN  IF idx + 1 \in 1..Len(items)
         THEN items' =
                MapAt(items, idx,
                      IF ok
                      THEN [items[idx + 1] EXCEPT
                              !.isHinting = FALSE,
                              !.hint = ResultFor(inflight[k].sessionId)]
                      ELSE [items[idx + 1] EXCEPT !.isHinting = FALSE])
         ELSE items' = items
  /\ UNCHANGED <<activeIdx, throwDir, isGenerating, hasStarted, sysVars,
                 normVars>>

\* lines 351-358: the pager buttons (enabled by lines 560 and 570)
onNext ==
  /\ CardShown /\ throwDir = "null"
  /\ activeIdx < Len(items) - 1
  /\ throwDir' = "right"
  /\ UNCHANGED <<items, activeIdx, isGenerating, hasStarted, inflight,
                 sysVars, normVars>>

onPrev ==
  /\ CardShown /\ throwDir = "null"
  /\ activeIdx > 0
  /\ throwDir' = "left"
  /\ UNCHANGED <<items, activeIdx, isGenerating, hasStarted, inflight,
                 sysVars, normVars>>

Min(a, b) == IF a <= b THEN a ELSE b
Max(a, b) == IF a >= b THEN a ELSE b

\* lines 365-369: the animation ends and the index changes
onAnimEnd ==
  /\ throwDir # "null"
  /\ activeIdx' = IF throwDir = "right"
                  THEN Min(activeIdx + 1, Len(items) - 1)
                  ELSE Max(activeIdx - 1, 0)
  /\ throwDir' = "null"
  /\ UNCHANGED <<items, isGenerating, hasStarted, inflight, sysVars,
                 normVars>>

InitPage ==
  /\ IdleSys
  /\ normInput = <<>>
  /\ normResult = Pending
  /\ PageMounted

\* the fetch at place k of inflight settles: with a response, or with a
\* failure
SettlesAt(k) ==
  \E ok \in BOOLEAN :
    \/ \E stored \in BOOLEAN :
         GenerateSettles(k, ok, IF stored THEN Len(items) + 1 ELSE 0)
    \/ \E isCorrect \in {"true", "false"} : SubmitSettles(k, ok, isCorrect)
    \/ HintSettles(k, ok)

Settles == \E k \in 1..MaxInFlight : SettlesAt(k)

NextPage ==
  \/ startSession
  \/ generateProblem
  \/ \E val \in TypedAnswers : onChange(val)
  \/ submitAnswer
  \/ getHint
  \/ onNext
  \/ onPrev
  \/ onAnimEnd
  \/ Settles

SpecPage == InitPage /\ [][NextPage]_vars

\* the page, with every fetch settling in the end: no fetch stays in flight
\* forever, whatever the order in which the others settle
SpecPageLive == SpecPage /\ \A k \in 1..MaxInFlight : WF_vars(SettlesAt(k))

(***************************************************************************)
(* Properties of the generator page                                        *)
(***************************************************************************)
\* C29: on the generator page the feedback and the hint an item shows are
\* those of a request that named the item's own sessionId, whatever else
\* happens while the request is in flight (a generate response prepending
\* a new item among it).
C29_ResultOnItemSent ==
  \A i \in 1..Len(items) :
    /\ items[i].feedback # NoResult =>
         items[i].feedback = ResultFor(items[i].sessionId)
    /\ items[i].hint # NoResult =>
         items[i].hint = ResultFor(items[i].sessionId)

\* the item of session id is in the list with its flag set
Submitting(id) ==
  \E i \in 1..Len(items) : items[i].sessionId = id /\ items[i].isSubmitting

Hinting(id) ==
  \E i \in 1..Len(items) : items[i].sessionId = id /\ items[i].isHinting

\* C30: on the generator page an item whose isSubmitting (or isHinting)
\* flag a request has set gets the flag back to false once the requests in
\* flight have settled, whatever else happens meanwhile: no item stays in
\* the submitting (or hinting) state forever.
C30_FlagsReset ==
  \A id \in 1..MaxItems :
    /\ Submitting(id) ~> ~Submitting(id)
    /\ Hinting(id) ~> ~Hinting(id)

=============================================================================
